---- MODULE Spec2Model ----
(***************************************************************************)
(* A model of the agent execution engine of src/agent/agents.py: the       *)
(* ReactAgent run loop (direct_run / stream_run), the planning step, the   *)
(* step() of the three ReactAgent subclasses, tool execution and the       *)
(* reconstruction of the message memory from the step log.                 *)
(*                                                                         *)
(* Python values are records of one shape, [kind, s, d]: kind is the       *)
(* Python type, s a string payload, d a mapping payload.  Texts that the   *)
(* code builds by formatting are tuples of their parts.                    *)
(***************************************************************************)
EXTENDS Integers, Sequences, FiniteSets, TLC

\* ------------------------------------------------------------------ bounds
\* Largest iteration budget (max_iterations) a modelled agent is built with.
MaxBudget == 2
\* Largest planning_interval a modelled agent is built with.
MaxPlanInterval == 2

\* ------------------------------------------------------------ Python values
EmptyMap == [x \in {} |-> ""]
PyNone == [kind |-> "NoneType", s |-> "", d |-> EmptyMap]
PyStr(x) == [kind |-> "str", s |-> x, d |-> EmptyMap]
PyDict(f) == [kind |-> "dict", s |-> "", d |-> f]
\* An object of an agent type (AgentText, AgentImage, AgentAudio) or any other.
PyObj(type, x) == [kind |-> type, s |-> x, d |-> EmptyMap]
IsNone(v) == v.kind = "NoneType"
IsStr(v) == v.kind = "str"
IsDict(v) == v.kind = "dict"

\* The entry e with field k set to v (a Python dict assignment e[k] = v).
SetField(e, k, v) == [x \in DOMAIN e \cup {k} |-> IF x = k THEN v ELSE e[x]]
\* The log with the field k of its last entry set to v.
SetLast(lg, k, v) == [lg EXCEPT ![Len(lg)] = SetField(lg[Len(lg)], k, v)]
EmptyEntry == [x \in {} |-> ""]

\* ------------------------------------------------------------------- state
VARIABLES
    agent_class,            \* the ReactAgent subclass of the agent
    max_iterations,         \* Agent.max_iterations
    planning_interval,      \* ReactAgent.planning_interval, 0 for None
    self_is_mistral,        \* the is_mistral flag given to the constructor
    toolbox,                \* Toolbox._tools: name -> tool
    task,                   \* Agent.task
    state,                  \* Agent.state
    logs,                   \* Agent.logs
    prompt,                 \* Agent.prompt
    stream,                 \* run(stream=...)
    is_mistral,             \* run(is_mistral=...)
    run_task,               \* the task argument of direct_run / stream_run
    return_generated_code,  \* CodeAgent.run(return_generated_code=...)
    in_summary_mode,        \* write_inner_memory_from_logs(summary_mode=...)
    reset,                  \* ReactAgent.run(reset=...)
    pc,                     \* position of the run
    iteration,              \* the run loop's iteration
    final_answer,           \* the run loop's final_answer
    step_observation_logs,  \* the run loop's step_observation_logs
    sm_logs,                \* direct_run's sm_logs
    llm_output,             \* step()'s llm_output
    action,                 \* step()'s parsed action
    answer_facts,           \* planning_step()'s answer_facts / facts_update
    step_exc,               \* the exception in flight, type "none" when none
    step_ret,               \* the number of values step() returned, 0 when it raised
    yielded,                \* what stream_run has yielded, in order
    returned,               \* what run() gave its caller
    raised,                 \* the exception that left run(), type "none" when none
    calls                   \* the calls made to the collaborators, in order

vars == <<agent_class, max_iterations, planning_interval, self_is_mistral, toolbox,
          task, state, logs, prompt, stream, is_mistral, run_task,
          return_generated_code, in_summary_mode, reset, pc, iteration,
          final_answer, step_observation_logs, sm_logs, llm_output, action,
          answer_facts, step_exc, step_ret, yielded, returned, raised, calls>>

config == <<agent_class, max_iterations, planning_interval, self_is_mistral, toolbox>>
runargs == <<task, stream, is_mistral, run_task, return_generated_code, in_summary_mode,
             reset>>
locals == <<llm_output, action, answer_facts>>

AgentClasses == {"ReactJsonAgent", "ReactCodeAgent", "ReactCodeSearchAgent"}

\* The exception classes; AgentError is the base of the four agent errors.
AgentErrors == {"AgentParsingError", "AgentExecutionError", "AgentGenerationError",
                "AgentMaxIterationsError"}
IsAgentError(e) == e.type \in AgentErrors
NoExc == [type |-> "none", message |-> <<>>]
Exc(type, message) == [type |-> type, message |-> message]

\* ------------------------------------------------------------------ memory
SYSTEM == "system"
USER == "user"
ASSISTANT == "assistant"
TOOL_RESPONSE == "tool-response"
Message(role, content) == [role |-> role, content |-> content]

\* str.replace(tag, ""): the text without its parts equal to tag.
RemoveTag(text, tag) == SelectSeq(text, LAMBDA part : part # tag)
\* str.replace(tag, by): the text with each part equal to tag replaced by `by`.
ReplaceTag(text, tag, by) == [i \in DOMAIN text |-> IF text[i] = tag THEN by ELSE text[i]]

\* StepMessages giving a tool response to observations only, none to errors.
StepMessagesWithoutErrors(step_log, i, summary_mode) ==
    (IF "llm_output" \in DOMAIN step_log /\ ~summary_mode
        THEN <<Message(ASSISTANT, <<"llm_output", step_log["llm_output"]>>)>> ELSE <<>>)
    \o (IF "facts" \in DOMAIN step_log
        THEN <<Message(ASSISTANT, <<"[FACTS LIST]:", step_log["facts"]>>)>> ELSE <<>>)
    \o (IF "plan" \in DOMAIN step_log /\ ~summary_mode
        THEN <<Message(ASSISTANT, <<"[PLAN]:", step_log["plan"]>>)>> ELSE <<>>)
    \o (IF "tool_call" \in DOMAIN step_log /\ summary_mode
        THEN <<Message(ASSISTANT, <<"[STEP", i, "TOOL CALL]:", step_log["tool_call"]>>)>>
        ELSE <<>>)
    \o (IF "task" \in DOMAIN step_log
        THEN <<Message(USER, <<"New task:", step_log["task"]>>)>> ELSE <<>>)
    \o (IF "observation" \in DOMAIN step_log
        THEN <<Message(TOOL_RESPONSE, <<"[OUTPUT OF STEP", i, "] Observation:",
                                        step_log["observation"]>>)>>
        ELSE <<>>)
\* StepMessages passing over the task of a follow-up run.
StepMessagesWithoutTask(step_log, i, summary_mode) ==
    (IF "llm_output" \in DOMAIN step_log /\ ~summary_mode
        THEN <<Message(ASSISTANT, <<"llm_output", step_log["llm_output"]>>)>> ELSE <<>>)
    \o (IF "facts" \in DOMAIN step_log
        THEN <<Message(ASSISTANT, <<"[FACTS LIST]:", step_log["facts"]>>)>> ELSE <<>>)
    \o (IF "plan" \in DOMAIN step_log /\ ~summary_mode
        THEN <<Message(ASSISTANT, <<"[PLAN]:", step_log["plan"]>>)>> ELSE <<>>)
    \o (IF "tool_call" \in DOMAIN step_log /\ summary_mode
        THEN <<Message(ASSISTANT, <<"[STEP", i, "TOOL CALL]:", step_log["tool_call"]>>)>>
        ELSE <<>>)
    \o (IF "error" \in DOMAIN step_log
        THEN <<Message(TOOL_RESPONSE, <<"[OUTPUT OF STEP", i, "] Error:", step_log["error"],
                                        "Now let's retry">>)>>
        ELSE IF "observation" \in DOMAIN step_log
        THEN <<Message(TOOL_RESPONSE, <<"[OUTPUT OF STEP", i, "] Observation:",
                                        step_log["observation"]>>)>>
        ELSE <<>>)
\* StepMessages giving the plan before the facts.
StepMessagesPlanFirst(step_log, i, summary_mode) ==
    (IF "llm_output" \in DOMAIN step_log /\ ~summary_mode
        THEN <<Message(ASSISTANT, <<"llm_output", step_log["llm_output"]>>)>> ELSE <<>>)
    \o (IF "plan" \in DOMAIN step_log /\ ~summary_mode
        THEN <<Message(ASSISTANT, <<"[PLAN]:", step_log["plan"]>>)>> ELSE <<>>)
    \o (IF "facts" \in DOMAIN step_log
        THEN <<Message(ASSISTANT, <<"[FACTS LIST]:", step_log["facts"]>>)>> ELSE <<>>)
    \o (IF "tool_call" \in DOMAIN step_log /\ summary_mode
        THEN <<Message(ASSISTANT, <<"[STEP", i, "TOOL CALL]:", step_log["tool_call"]>>)>>
        ELSE <<>>)
    \o (IF "task" \in DOMAIN step_log
        THEN <<Message(USER, <<"New task:", step_log["task"]>>)>> ELSE <<>>)
    \o (IF "error" \in DOMAIN step_log
        THEN <<Message(TOOL_RESPONSE, <<"[OUTPUT OF STEP", i, "] Error:", step_log["error"],
                                        "Now let's retry">>)>>
        ELSE IF "observation" \in DOMAIN step_log
        THEN <<Message(TOOL_RESPONSE, <<"[OUTPUT OF STEP", i, "] Observation:",
                                        step_log["observation"]>>)>>
        ELSE <<>>)
\* StepMessages summarising the tool call in both modes.
StepMessagesAlwaysSummarising(step_log, i, summary_mode) ==
    (IF "llm_output" \in DOMAIN step_log /\ ~summary_mode
        THEN <<Message(ASSISTANT, <<"llm_output", step_log["llm_output"]>>)>> ELSE <<>>)
    \o (IF "facts" \in DOMAIN step_log
        THEN <<Message(ASSISTANT, <<"[FACTS LIST]:", step_log["facts"]>>)>> ELSE <<>>)
    \o (IF "plan" \in DOMAIN step_log /\ ~summary_mode
        THEN <<Message(ASSISTANT, <<"[PLAN]:", step_log["plan"]>>)>> ELSE <<>>)
    \o (IF "tool_call" \in DOMAIN step_log
        THEN <<Message(ASSISTANT, <<"[STEP", i, "TOOL CALL]:", step_log["tool_call"]>>)>>
        ELSE <<>>)
    \o (IF "task" \in DOMAIN step_log
        THEN <<Message(USER, <<"New task:", step_log["task"]>>)>> ELSE <<>>)
    \o (IF "error" \in DOMAIN step_log
        THEN <<Message(TOOL_RESPONSE, <<"[OUTPUT OF STEP", i, "] Error:", step_log["error"],
                                        "Now let's retry">>)>>
        ELSE IF "observation" \in DOMAIN step_log
        THEN <<Message(TOOL_RESPONSE, <<"[OUTPUT OF STEP", i, "] Observation:",
                                        step_log["observation"]>>)>>
        ELSE <<>>)
\* The messages write_inner_memory_from_logs derives from one step log, i being
\* its index in logs[1:].
StepMessages(step_log, i, summary_mode) ==
    (IF "llm_output" \in DOMAIN step_log /\ ~summary_mode
        THEN <<Message(ASSISTANT, <<"llm_output", step_log["llm_output"]>>)>> ELSE <<>>)
    \o (IF "facts" \in DOMAIN step_log
        THEN <<Message(ASSISTANT, <<"[FACTS LIST]:", step_log["facts"]>>)>> ELSE <<>>)
    \o (IF "plan" \in DOMAIN step_log /\ ~summary_mode
        THEN <<Message(ASSISTANT, <<"[PLAN]:", step_log["plan"]>>)>> ELSE <<>>)
    \o (IF "tool_call" \in DOMAIN step_log /\ summary_mode
        THEN <<Message(ASSISTANT, <<"[STEP", i, "TOOL CALL]:", step_log["tool_call"]>>)>>
        ELSE <<>>)
    \o (IF "task" \in DOMAIN step_log
        THEN <<Message(USER, <<"New task:", step_log["task"]>>)>> ELSE <<>>)
    \o (IF "error" \in DOMAIN step_log
        THEN <<Message(TOOL_RESPONSE, <<"[OUTPUT OF STEP", i, "] Error:", step_log["error"],
                                        "Now let's retry">>)>>
        ELSE IF "observation" \in DOMAIN step_log
        THEN <<Message(TOOL_RESPONSE, <<"[OUTPUT OF STEP", i, "] Observation:",
                                        step_log["observation"]>>)>>
        ELSE <<>>)

\* The messages of the entries 2..n of the log (logs[1:n] in Python).
RECURSIVE StepsMemory(_, _, _)
StepsMemory(lg, n, summary_mode) ==
    IF n <= 1 THEN <<>>
    ELSE StepsMemory(lg, n - 1, summary_mode) \o StepMessages(lg[n], n - 2, summary_mode)

\* write_inner_memory_from_logs leaving the task message out in summary mode.
write_inner_memory_without_task(lg, summary_mode, mistral) ==
    LET prompt_message ==
            IF ~mistral
            THEN Message(SYSTEM, lg[1]["system_prompt"])
            ELSE Message(USER, RemoveTag(lg[1]["system_prompt"], "<<tool_descriptions>>"))
        task_message == Message(USER, <<"Task: ">> \o lg[1]["task"])
    IN  (IF summary_mode THEN <<prompt_message>> ELSE <<prompt_message, task_message>>)
        \o StepsMemory(lg, Len(lg), summary_mode)
write_inner_memory_from_logs(lg, summary_mode, mistral) ==
    LET prompt_message ==
            IF ~mistral
            THEN Message(SYSTEM, lg[1]["system_prompt"])
            ELSE Message(USER, RemoveTag(lg[1]["system_prompt"], "<<tool_descriptions>>"))
        task_message == Message(USER, <<"Task: ">> \o lg[1]["task"])
    IN  (IF summary_mode THEN <<task_message>> ELSE <<prompt_message, task_message>>)
        \o StepsMemory(lg, Len(lg), summary_mode)

\* --------------------------------------------------------------- toolbox
\* A tool: its name and the kinds of result its forward can give.
Tool(name) == [name |-> name, description |-> <<"description of", name>>]
FinalAnswerTool == Tool("final_answer")
\* Toolbox.__init__ on a list of tools.
ToolboxOf(tools) == [n \in {t.name : t \in tools} |-> Tool(n)]
\* Toolbox.add_tool, raising KeyError on a name already there.
add_tool(tb, tool) ==
    IF tool.name \in DOMAIN tb
    THEN [ok |-> FALSE, tools |-> tb]
    ELSE [ok |-> TRUE, tools |-> [n \in DOMAIN tb \cup {tool.name} |->
                                     IF n = tool.name THEN tool ELSE tb[n]]]
\* Toolbox.remove_tool, raising KeyError on a name that is not there.
remove_tool(tb, tool_name) ==
    IF tool_name \notin DOMAIN tb
    THEN [ok |-> FALSE, tools |-> tb]
    ELSE [ok |-> TRUE, tools |-> [n \in DOMAIN tb \ {tool_name} |-> tb[n]]]
\* update_tool adding the tool when its name is not there.
update_tool_or_add(tb, tool) ==
    [ok |-> TRUE, tools |-> [n \in DOMAIN tb \cup {tool.name} |->
                                IF n = tool.name THEN tool ELSE tb[n]]]
\* Toolbox.update_tool, raising KeyError on a name that is not there.
update_tool(tb, tool) ==
    IF tool.name \notin DOMAIN tb
    THEN [ok |-> FALSE, tools |-> tb]
    ELSE [ok |-> TRUE, tools |-> [n \in DOMAIN tb |-> IF n = tool.name THEN tool ELSE tb[n]]]
\* clear_toolbox keeping the final_answer tool.
clear_toolbox_but_final_answer(tb) == [n \in DOMAIN tb \cap {"final_answer"} |-> tb[n]]
\* Toolbox.clear_toolbox: the registry becomes the empty dict.
clear_toolbox(tb) == [n \in {} |-> Tool(n)]
\* Toolbox.show_tool_descriptions: one description per tool.
show_tool_descriptions(tb) == {tb[n].description : n \in DOMAIN tb}

\* The system prompt template of each class, as parts.
SystemPromptTemplate(cls) ==
    IF cls = "ReactJsonAgent"
    THEN <<"DEFAULT_REACT_JSON_SYSTEM_PROMPT", "<<tool_descriptions>>">>
    ELSE IF cls = "ReactCodeAgent"
    THEN <<"DEFAULT_REACT_CODE_SYSTEM_PROMPT", "<<tool_descriptions>>",
           "<<authorized_imports>>">>
    ELSE IF cls = "CodeAgent"
    THEN <<"DEFAULT_CODE_SYSTEM_PROMPT", "<<tool_descriptions>>">>
    ELSE <<"SEARCHING_REACT_SYSTEM_PROMPT", "<<authorized_imports>>">>
format_prompt_with_tools(tb, prompt_template) ==
    ReplaceTag(prompt_template, "<<tool_descriptions>>", "tool_descriptions")
format_prompt_with_imports(prompt_template) ==
    ReplaceTag(prompt_template, "<<authorized_imports>>", "authorized_imports")
\* Only the code-action classes have the attribute authorized_imports.
HasAuthorizedImports(cls) == cls \in {"CodeAgent", "ReactCodeAgent", "ReactCodeSearchAgent"}

\* Agent.initialize_for_run: the log of a fresh run.
initialize_for_run(cls, tb, tsk) ==
    LET sp == format_prompt_with_tools(tb, SystemPromptTemplate(cls))
        sp2 == IF HasAuthorizedImports(cls) THEN format_prompt_with_imports(sp) ELSE sp
    IN  <<[system_prompt |-> sp2, task |-> tsk]>>

\* ------------------------------------------------------- the LLM's outputs
\* An LLM output is the tuple of the segments that str.split(split_token) gives,
\* split_token being the class's action marker ("Action:", "Code:", "Search:").

\* A segment of a ReactJsonAgent output: form is what parse_json_blob finds in it
\* ("text": no braces, "malformed": braces json.loads rejects, "multi": rejected at
\* "},\n", "json": a JSON object), obj the object when form is "json".
JText == [form |-> "text", obj |-> EmptyMap]
JMalformed == [form |-> "malformed", obj |-> EmptyMap]
JBlob(obj) == [form |-> "json", obj |-> obj]
JCall(name, args) == JBlob([k \in {"action", "action_input"} |->
                              IF k = "action" THEN PyStr(name) ELSE args])
JCallNoInput(name) == JBlob([k \in {"action"} |-> PyStr(name)])
Args(k, v) == PyDict([x \in {k} |-> PyStr(v)])
JsonOutputs ==
    { <<JText>>,
      <<JText, JMalformed>>,
      <<JText, JBlob([k \in {"action_input"} |-> PyStr("q")])>>,
      <<JText, JCall("final_answer", Args("answer", "a1"))>>,
      <<JText, JCall("final_answer", Args("answer", "image.png"))>>,
      <<JText, JCall("final_answer", Args("text", "a1"))>>,
      <<JText, JCall("final_answer", PyStr("a1"))>>,
      <<JText, JCallNoInput("final_answer")>>,
      <<JText, JCall("search", Args("query", "image.png"))>>,
      <<JText, JCall("search", PyStr("q"))>>,
      <<JText, JCall("unknown", Args("query", "q"))>>,
      <<JText, [form |-> "multi", obj |-> EmptyMap]>>,
      <<JText, JCall("search", Args("query", "q")), JCall("final_answer", Args("answer", "a1"))>> }

\* A segment of a ReactCodeAgent output: whether it holds a fenced block, and the
\* block's lines, each line the tuple of its tokens.
CText == [fence |-> FALSE, code |-> <<>>]
CBlock(lines) == [fence |-> TRUE, code |-> lines]
CodeOutputs ==
    { <<CText>>,
      <<CText, CText>>,
      <<CBlock(<<<<"print", "(", "x", ")">>>>)>>,
      <<CText, CBlock(<<<<"x", "=", "search", "(", ")">>, <<"print", "(", "x", ")">>>>)>>,
      <<CText, CBlock(<<<<"final_answer", "(", "x", ")">>>>)>>,
      <<CText, CBlock(<<<<"print", "(", "x", ")">>>>), CBlock(<<<<"final_answer", "(", "x", ")">>>>)>> }

\* A segment of a ReactCodeSearchAgent output: whether "Final Answer:" is in it.
SText(final) == [final |-> final]
SearchOutputs ==
    { <<SText(FALSE)>>,
      <<SText(TRUE)>>,
      <<SText(FALSE), SText(FALSE)>>,
      <<SText(TRUE), SText(FALSE)>>,
      <<SText(FALSE), SText(FALSE), SText(FALSE)>> }

LLMOutputs(cls) ==
    IF cls = "ReactJsonAgent" THEN JsonOutputs
    ELSE IF cls \in {"CodeAgent", "ReactCodeAgent"} THEN CodeOutputs
    ELSE SearchOutputs

\* ------------------------------------------------------------------ parsers
Ok(v) == [ok |-> TRUE, value |-> v, error |-> <<>>]
Err(message) == [ok |-> FALSE, value |-> PyNone, error |-> message]

\* parse_json_blob: the object of the blob, or a ValueError.
parse_json_blob(json_blob) ==
    IF json_blob.form = "json" THEN Ok(json_blob.obj)
    ELSE IF json_blob.form = "multi"
    THEN Err(<<"JSON is invalid: you probably tried to provide multiple tool calls">>)
    ELSE IF json_blob.form = "malformed"
    THEN Err(<<"The JSON blob you used is invalid">>)
    ELSE Err(<<"Error in parsing the JSON blob">>)

\* parse_json_tool_call asking for both keys.
parse_json_tool_call_requiring_input(json_blob) ==
    LET tool_call == parse_json_blob(json_blob)
    IN  IF ~tool_call.ok THEN tool_call
        ELSE IF "action" \in DOMAIN tool_call.value /\ "action_input" \in DOMAIN tool_call.value
        THEN Ok([tool_name |-> tool_call.value["action"],
                 arguments |-> tool_call.value["action_input"]])
        ELSE Err(<<"Missing keys:",
                   {key \in {"action", "action_input"} : key \notin DOMAIN tool_call.value}>>)
\* parse_json_tool_call: (action, action_input), action_input None when absent.
parse_json_tool_call(json_blob) ==
    LET tool_call == parse_json_blob(json_blob)
    IN  IF ~tool_call.ok THEN tool_call
        ELSE IF "action" \in DOMAIN tool_call.value /\ "action_input" \in DOMAIN tool_call.value
        THEN Ok([tool_name |-> tool_call.value["action"],
                 arguments |-> tool_call.value["action_input"]])
        ELSE IF "action" \in DOMAIN tool_call.value
        THEN Ok([tool_name |-> tool_call.value["action"], arguments |-> PyNone])
        ELSE Err(<<"Missing keys:",
                   {key \in {"action", "action_input"} : key \notin DOMAIN tool_call.value}>>)

\* parse_code_blob on a tuple of segments: the code of the first fenced block.
parse_code_blob(code_blob) ==
    LET fenced == {i \in DOMAIN code_blob : code_blob[i].fence}
    IN  IF fenced = {} THEN Err(<<"The code blob you used is invalid">>)
        ELSE Ok(code_blob[CHOOSE i \in fenced : \A j \in fenced : i <= j].code)

\* Agent.extract_action: the last two pieces of the split output.
extract_action(split) ==
    IF Len(split) < 2
    THEN Err(<<"Error: No split token provided in your output">>)
    ELSE Ok([rationale |-> split[Len(split) - 1], action |-> split[Len(split)]])

\* ------------------------------------------------------------ the step()s
\* What the parse part of a step gives: the exception it raises (NoExc when
\* none), the step's log entry as it leaves it, and the parsed action.
StepResult(exc, entry, act) == [exc |-> exc, entry |-> entry, action |-> act]
NoAction == [tool_name |-> PyNone, arguments |-> PyNone]

\* ReactJsonAgent.step, from the parse to the logging of the tool call.
ParseJson(out, entry) ==
    LET ea == extract_action(out)
    IN  IF ~ea.ok THEN StepResult(Exc("AgentParsingError", ea.error), entry, NoAction)
        ELSE LET tc == parse_json_tool_call(ea.value.action)
             IN  IF ~tc.ok
                 THEN StepResult(Exc("AgentParsingError",
                                     <<"Could not parse the given action:">> \o tc.error),
                                 entry, NoAction)
                 ELSE StepResult(NoExc,
                         SetField(SetField(entry, "rationale", ea.value.rationale),
                                  "tool_call", [tool_name |-> tc.value.tool_name,
                                                tool_arguments |-> tc.value.arguments]),
                         tc.value)

\* ParseCode going on with an empty code action when no fenced block is found.
ParseCodeLenient(out, entry) ==
    LET ea == extract_action(out)
        raw_code_action == IF ea.ok THEN <<ea.value.action>> ELSE out
        code_action == parse_code_blob(raw_code_action)
        code == IF code_action.ok THEN code_action.value ELSE <<>>
    IN  StepResult(NoExc,
            SetField(SetField(entry, "rationale", out),
                     "tool_call", [tool_name |-> PyStr("code interpreter"),
                                   tool_arguments |-> code]),
            [tool_name |-> PyStr("code interpreter"), arguments |-> code])
\* ReactCodeAgent.step, from the parse to the logging of the code action: when the
\* output has no "Code:" marker the whole output is parsed.
ParseCode(out, entry) ==
    LET ea == extract_action(out)
        rationale == IF ea.ok THEN <<ea.value.rationale>> ELSE out
        raw_code_action == IF ea.ok THEN <<ea.value.action>> ELSE out
        code_action == parse_code_blob(raw_code_action)
    IN  IF ~code_action.ok
        THEN StepResult(Exc("AgentParsingError", <<"Error in code parsing:">> \o code_action.error),
                        entry, NoAction)
        ELSE StepResult(NoExc,
                SetField(SetField(entry, "rationale", rationale),
                         "tool_call", [tool_name |-> PyStr("code interpreter"),
                                       tool_arguments |-> code_action.value]),
                [tool_name |-> PyStr("code interpreter"), arguments |-> code_action.value])

\* Whether "Final Answer:" is in the output.
HasFinalAnswer(out) == \E i \in DOMAIN out : out[i].final
\* ParseSearch looking for "Final Answer:" before it looks for "Search:".
ParseSearchFinalAnswerFirst(out, entry) ==
    IF HasFinalAnswer(out)
    THEN StepResult(NoExc, SetField(entry, "final_answer", PyStr("final_result")),
                    [search_flag |-> FALSE, search_query |-> <<>>])
    ELSE IF Len(out) >= 2
    THEN StepResult(NoExc,
            SetField(SetField(entry, "rationale", <<"Thought", out[Len(out) - 1]>>),
                     "summarization", <<"Summarization", out[Len(out) - 1]>>),
            [search_flag |-> TRUE, search_query |-> out[Len(out)]])
    ELSE StepResult(NoExc, SetField(entry, "rationale", out),
                    [search_flag |-> FALSE, search_query |-> out])
\* ReactCodeSearchAgent.step, the extraction of the search query or of the final
\* answer: the output is split on "Search:".
ParseSearch(out, entry) ==
    IF Len(out) >= 2
    THEN StepResult(NoExc,
            SetField(SetField(entry, "rationale", <<"Thought", out[Len(out) - 1]>>),
                     "summarization", <<"Summarization", out[Len(out) - 1]>>),
            [search_flag |-> TRUE, search_query |-> out[Len(out)]])
    ELSE IF HasFinalAnswer(out)
    THEN StepResult(NoExc, SetField(entry, "final_answer", PyStr("final_result")),
                    [search_flag |-> FALSE, search_query |-> <<>>])
    ELSE StepResult(NoExc, SetField(entry, "rationale", out),
                    [search_flag |-> FALSE, search_query |-> out])

StepParse(cls, out, entry) ==
    IF cls = "ReactJsonAgent" THEN ParseJson(out, entry)
    ELSE IF cls = "ReactCodeAgent" THEN ParseCode(out, entry)
    ELSE ParseSearch(out, entry)

\* What a tool, the code evaluator or the search tool does when called: it raises
\* or returns value; wrote says whether the evaluator wrote state["print_outputs"]
\* before it raised.
Outcome(raises, value, wrote) == [raises |-> raises, value |-> value, wrote |-> wrote]
ToolOutcomes ==
    { Outcome(TRUE, PyNone, FALSE),
      Outcome(FALSE, PyObj("AgentText", "observation"), FALSE),
      Outcome(FALSE, PyObj("AgentImage", "img1"), FALSE) }
EvaluatorOutcomes ==
    { Outcome(TRUE, PyNone, FALSE),
      Outcome(TRUE, PyNone, TRUE),
      Outcome(FALSE, PyNone, TRUE),
      Outcome(FALSE, PyStr("a1"), TRUE) }
SearchOutcomes ==
    { Outcome(TRUE, PyNone, FALSE),
      Outcome(FALSE, PyStr("search_res"), FALSE) }
Outcomes(cls) ==
    IF cls = "ReactJsonAgent" THEN ToolOutcomes
    ELSE IF cls = "ReactCodeAgent" THEN EvaluatorOutcomes
    ELSE SearchOutcomes

\* Substitute leaving every argument as it is.
SubstituteNothing(arguments, st) == arguments
\* The arguments with each value that names a State variable replaced by the
\* variable's value (the loop of execute_tool_call).
Substitute(arguments, st) ==
    PyDict([key \in DOMAIN arguments.d |->
               LET value == arguments.d[key]
               IN  IF IsStr(value) /\ value.s \in DOMAIN st THEN st[value.s] ELSE value])

\* execute_tool_call invoking the tool whatever its name.
execute_tool_call_any_name(tool_name, arguments, st, tb, outcome) ==
    IF IsNone(arguments)
    THEN [exc |-> Exc("AgentExecutionError",
                      <<"Error in tool call execution:", "AttributeError">>),
          observation |-> PyNone, arguments |-> arguments, called |-> FALSE,
          received |-> PyNone]
    ELSE LET passed == IF IsStr(arguments) THEN arguments
                       ELSE PyDict([key \in DOMAIN arguments.d |->
                                LET value == arguments.d[key]
                                IN  IF IsStr(value) /\ value.s \in DOMAIN st
                                    THEN st[value.s] ELSE value])
         IN  [exc |-> IF outcome.raises
                      THEN Exc("AgentExecutionError",
                               <<"Error in tool call execution:", "tool error">>)
                      ELSE NoExc,
              observation |-> outcome.value, arguments |-> passed, called |-> TRUE,
              received |-> passed]
\* Agent.execute_tool_call: exc is the error it raises, observation what it returns,
\* arguments the arguments dict as the call leaves it, called whether the tool was
\* invoked and received what it was invoked with.  A tool name that is a JSON
\* object cannot be looked up in the toolbox: TypeError.
execute_tool_call(tool_name, arguments, st, tb, outcome) ==
    IF IsDict(tool_name)
    THEN [exc |-> Exc("TypeError", <<"unhashable type">>),
          observation |-> PyNone, arguments |-> arguments, called |-> FALSE,
          received |-> PyNone]
    ELSE IF ~(IsStr(tool_name) /\ tool_name.s \in DOMAIN tb)
    THEN [exc |-> Exc("AgentExecutionError",
                      <<"Error: unknown tool", tool_name, "should be instead one of", DOMAIN tb>>),
          observation |-> PyNone, arguments |-> arguments, called |-> FALSE,
          received |-> PyNone]
    ELSE IF IsNone(arguments)
    THEN [exc |-> Exc("AgentExecutionError",
                      <<"Error in tool call execution:", "AttributeError", tb[tool_name.s].description>>),
          observation |-> PyNone, arguments |-> arguments, called |-> FALSE,
          received |-> PyNone]
    ELSE LET passed == IF IsStr(arguments) THEN arguments ELSE Substitute(arguments, st)
         IN  [exc |-> IF outcome.raises
                      THEN Exc("AgentExecutionError",
                               <<"Error in tool call execution:", "tool error",
                                 tb[tool_name.s].description>>)
                      ELSE NoExc,
              observation |-> outcome.value, arguments |-> passed, called |-> TRUE,
              received |-> passed]

\* What the execute part of a step gives: the exception it raises, the step's log
\* entry and State as it leaves them, the number of values the step returns (the
\* length of what the run loop unpacks; 0 when it raised) and the call it made to a
\* collaborator (kind "none" when it made none).
ExecResult(exc, entry, st, ret, call) ==
    [exc |-> exc, entry |-> entry, state |-> st, ret |-> ret, call |-> call]
NoCall == [kind |-> "none", received |-> PyNone, failed |-> FALSE, result |-> PyNone]
Call(kind, received, outcome) ==
    [kind |-> kind, received |-> received, failed |-> outcome.raises, result |-> outcome.value]

\* The name under which ReactJsonAgent.step stores a non-textual observation.
ObservationName(observation) ==
    IF observation.kind = "AgentImage" THEN "image.png"
    ELSE IF observation.kind = "AgentAudio" THEN "audio.mp3"
    ELSE "object.object"

\* The answer ReactJsonAgent.step records for a final_answer action.
JsonFinalAnswer(arguments, st) ==
    IF IsDict(arguments)
    THEN IF "answer" \in DOMAIN arguments.d
         THEN LET answer == arguments.d["answer"]
              IN  IF IsStr(answer) /\ answer.s \in DOMAIN st THEN st[answer.s] ELSE answer
         ELSE arguments
    ELSE arguments

\* ExecJson storing every result in State, the textual ones too.
ExecJsonStoringEveryResult(act, entry, st, tb, outcome) ==
    IF act.tool_name = PyStr("final_answer")
    THEN LET done == SetField(entry, "final_answer", JsonFinalAnswer(act.arguments, st))
         IN  ExecResult(NoExc, done, st, Cardinality(DOMAIN done), NoCall)
    ELSE LET r == execute_tool_call(act.tool_name, act.arguments, st, tb, outcome)
             logged == SetField(entry, "tool_call",
                                [tool_name |-> act.tool_name, tool_arguments |-> r.arguments])
             call == IF r.called THEN Call("tool", r.received, outcome) ELSE NoCall
         IN  IF r.exc.type # "none" THEN ExecResult(r.exc, logged, st, 0, call)
             ELSE LET observation_name == ObservationName(r.observation)
                      done == SetField(logged, "observation",
                                       IF r.observation.kind = "AgentText"
                                       THEN <<r.observation.s>>
                                       ELSE <<"Stored", observation_name, "in memory.">>)
                  IN  ExecResult(NoExc, done, SetField(st, observation_name, r.observation),
                                 Cardinality(DOMAIN done), call)
\* ReactJsonAgent.step from "# Execute" on.  The step returns its log entry, a
\* dict, which the run loop unpacks key by key.  The arguments dict logged in
\* tool_call is the one execute_tool_call substitutes into.
ExecJson(act, entry, st, tb, outcome) ==
    IF act.tool_name = PyStr("final_answer")
    THEN LET done == SetField(entry, "final_answer", JsonFinalAnswer(act.arguments, st))
         IN  ExecResult(NoExc, done, st, Cardinality(DOMAIN done), NoCall)
    ELSE LET r == execute_tool_call(act.tool_name, act.arguments, st, tb, outcome)
             logged == SetField(entry, "tool_call",
                                [tool_name |-> act.tool_name, tool_arguments |-> r.arguments])
             call == IF r.called THEN Call("tool", r.received, outcome) ELSE NoCall
         IN  IF r.exc.type # "none" THEN ExecResult(r.exc, logged, st, 0, call)
             ELSE IF r.observation.kind = "AgentText"
             THEN LET done == SetField(logged, "observation", <<r.observation.s>>)
                  IN  ExecResult(NoExc, done, st, Cardinality(DOMAIN done), call)
             ELSE LET observation_name == ObservationName(r.observation)
                      done == SetField(logged, "observation",
                                       <<"Stored", observation_name, "in memory.">>)
                  IN  ExecResult(NoExc, done, SetField(st, observation_name, r.observation),
                                 Cardinality(DOMAIN done), call)

\* Whether a line of the code action starts with "final_answer".
HasFinalAnswerLine(code_action) ==
    \E i \in DOMAIN code_action : code_action[i][1] = "final_answer"

\* ExecCode recording the final answer before the evaluator is known to succeed.
ExecCodeFinalAnswerFirst(act, entry, st, outcome) ==
    LET written == SetField(st, "print_outputs", PyStr("printed"))
        call == Call("evaluator", act.arguments, outcome)
        early == IF HasFinalAnswerLine(act.arguments)
                 THEN SetField(entry, "final_answer", outcome.value) ELSE entry
    IN  IF outcome.raises
        THEN ExecResult(Exc("AgentExecutionError", <<"Code execution failed">>), early,
                        IF outcome.wrote THEN written ELSE st, 0, call)
        ELSE ExecResult(NoExc, SetField(early, "observation", written["print_outputs"]),
                        written, 2, call)
\* ReactCodeAgent.step from "# Execute" on; it returns (current_step_logs, obs).
ExecCode(act, entry, st, outcome) ==
    LET written == SetField(st, "print_outputs", PyStr("printed"))
        call == Call("evaluator", act.arguments, outcome)
    IN  IF outcome.raises
        THEN ExecResult(Exc("AgentExecutionError", <<"Code execution failed">>), entry,
                        IF outcome.wrote THEN written ELSE st, 0, call)
        ELSE LET observed == SetField(entry, "observation", written["print_outputs"])
                 done == IF HasFinalAnswerLine(act.arguments)
                         THEN SetField(observed, "final_answer", outcome.value)
                         ELSE observed
             IN  ExecResult(NoExc, done, written, 2, call)

\* ReactCodeSearchAgent.step from the search on; it returns
\* (current_step_logs, obs, sm).
ExecSearch(act, entry, st, outcome) ==
    IF act.search_flag
    THEN IF outcome.raises
         THEN ExecResult(Exc("AgentParsingError", <<"Error in searching">>), entry, st, 0,
                         Call("search", act.search_query, outcome))
         ELSE ExecResult(NoExc, SetField(entry, "observation", outcome.value), st, 3,
                         Call("search", act.search_query, outcome))
    ELSE ExecResult(NoExc, entry, st, 3, NoCall)

StepExecute(cls, act, entry, st, tb, outcome) ==
    IF cls = "ReactJsonAgent" THEN ExecJson(act, entry, st, tb, outcome)
    ELSE IF cls = "ReactCodeAgent" THEN ExecCode(act, entry, st, outcome)
    ELSE ExecSearch(act, entry, st, outcome)

\* ------------------------------------------------------------ the run loop
\* The condition of the while loop of direct_run and stream_run.
LoopContinues(fa, it, budget) == IsNone(fa) /\ it < budget
\* Whether direct_run calls planning_step before the step; stream_run never does.
PlanningDue(strm, interval, it) == ~strm /\ interval # 0 /\ it % interval = 0
\* The condition of the fallback after the loop.
Exhausted(fa, it, budget) == IsNone(fa) /\ it = budget
\* The number of targets the run loop unpacks step()'s result into.
UnpackTargets(strm) == IF strm THEN 2 ELSE 3
\* RecordError appending an entry of its own for the error.
RecordErrorAsNewEntry(lg, e) == Append(lg, [error |-> e])
\* RecordError writing into the entry before the last one.
RecordErrorInEarlierEntry(lg, e) ==
    [lg EXCEPT ![Len(lg) - 1] = SetField(lg[Len(lg) - 1], "error", e)]
\* The except clause of the run loop: the error goes into the last log entry.
RecordError(lg, e) == SetLast(lg, "error", e)
\* What the run gives its caller.
Result(fa, obs, sm) == [final_answer |-> fa, step_observation_logs |-> obs, sm_logs |-> sm]
\* ReactAgent.provide_final_answer: the LLM's answer, or the text of the failure.
provide_final_answer(reply) ==
    IF reply.raises THEN PyStr("Error in generating final llm output") ELSE reply.value
\* The prompt provide_final_answer sends.
FinalAnswerPrompt(lg, mistral, tsk) ==
    <<Message(IF mistral THEN USER ELSE SYSTEM, <<"An agent tried to answer an user query">>)>>
    \o Tail(write_inner_memory_from_logs(lg, FALSE, mistral))
    \o <<Message(USER, <<"Based on the above, please provide an answer", tsk>>)>>
\* FallbackEntry never recording the answer.
FallbackEntryWithoutAnswer(strm, entry, fa) == entry
\* The fallback entry once provide_final_answer has returned fa: stream_run always
\* records fa, direct_run only when it is not None.
FallbackEntry(strm, entry, fa) ==
    IF strm \/ ~IsNone(fa) THEN SetField(entry, "final_answer", fa) ELSE entry
\* The is_mistral flag a step builds its memory with.
StepMistral(cls, flag) == IF cls = "ReactJsonAgent" THEN FALSE ELSE flag

\* The keyword arguments a run is given.
Inputs == { EmptyMap, [k \in {"image.png"} |-> PyObj("AgentImage", "img0")] }
\* A record of a call to the LLM engine: its site, the iteration it was made in,
\* whether the engine failed, and what it returned.
LlmCall(kind, it, failed, result) ==
    [kind |-> kind, iteration |-> it, received |-> PyNone, failed |-> failed, result |-> result]
\* What the LLM engine does when asked for a best-effort answer.
FinalReplies == { Outcome(TRUE, PyNone, FALSE),
                  Outcome(FALSE, PyStr("best effort answer"), FALSE),
                  Outcome(FALSE, PyStr("a1"), FALSE) }

\* The agent as its constructor leaves it.
Init ==
    /\ agent_class \in AgentClasses
    /\ max_iterations \in 1..MaxBudget
    /\ planning_interval \in 0..MaxPlanInterval
    /\ self_is_mistral \in (IF agent_class = "ReactJsonAgent" THEN {FALSE} ELSE BOOLEAN)
    /\ toolbox = add_tool(ToolboxOf({Tool("search")}), FinalAnswerTool).tools
    /\ task = <<>>
    /\ state = EmptyMap
    /\ logs = <<>>
    /\ prompt = <<>>
    /\ stream = FALSE
    /\ is_mistral = FALSE
    /\ run_task = <<>>
    /\ return_generated_code = FALSE
    /\ in_summary_mode = FALSE
    /\ reset = TRUE
    /\ pc = "idle"
    /\ iteration = 0
    /\ final_answer = PyNone
    /\ step_observation_logs = <<>>
    /\ sm_logs = <<>>
    /\ llm_output = <<>>
    /\ action = NoAction
    /\ answer_facts = PyNone
    /\ step_exc = NoExc
    /\ step_ret = 0
    /\ yielded = <<>>
    /\ returned = Result(PyNone, <<>>, <<>>)
    /\ raised = NoExc
    /\ calls = <<>>

\* ReactAgent.run with reset = True, up to the first test of the loop.
Run ==
    /\ pc = "idle"
    /\ \E kwargs \in Inputs, strm \in BOOLEAN, mistral \in BOOLEAN :
        LET tsk == <<"task">> \o (IF DOMAIN kwargs # {}
                                  THEN <<"You have been provided with these initial arguments:",
                                         kwargs>>
                                  ELSE <<>>)
        IN  /\ task' = tsk
            /\ run_task' = <<"task">>
            /\ state' = kwargs
            /\ logs' = initialize_for_run(agent_class, toolbox, tsk)
            /\ stream' = strm
            /\ is_mistral' = mistral
    /\ reset' = TRUE
    /\ pc' = "loop"
    /\ iteration' = 0
    /\ final_answer' = PyNone
    /\ step_observation_logs' = <<>>
    /\ sm_logs' = <<>>
    /\ UNCHANGED <<config, return_generated_code, in_summary_mode, prompt, locals, step_exc,
                   step_ret, yielded, returned, raised, calls>>

\* The test of the while loop and what follows it when the loop ends: the fallback
\* entry, or the return.
LoopTest ==
    /\ pc = "loop"
    /\ IF LoopContinues(final_answer, iteration, max_iterations)
       THEN /\ pc' = IF PlanningDue(stream, planning_interval, iteration)
                     THEN "plan_facts" ELSE "step"
            /\ UNCHANGED <<logs, yielded, returned>>
       ELSE IF Exhausted(final_answer, iteration, max_iterations)
       THEN /\ logs' = Append(logs, [error |-> Exc("AgentMaxIterationsError",
                                                   <<"Reached max iterations.">>)])
            /\ pc' = "recover"
            /\ UNCHANGED <<yielded, returned>>
       ELSE /\ pc' = "done"
            /\ returned' = Result(final_answer, step_observation_logs, sm_logs)
            /\ yielded' = IF stream THEN Append(yielded, 0) ELSE yielded
            /\ logs' = logs
    /\ UNCHANGED <<config, runargs, state, prompt, iteration, final_answer,
                   step_observation_logs, sm_logs, locals, step_exc, step_ret, raised, calls>>

\* The fallback: provide_final_answer's LLM call, the recording of its answer, the
\* return.  yielded holds log indexes, 0 standing for the final result tuple.
Recover ==
    /\ pc = "recover"
    /\ \E reply \in FinalReplies :
        LET fa == provide_final_answer(reply)
        IN  /\ final_answer' = fa
            /\ logs' = [logs EXCEPT ![Len(logs)] = FallbackEntry(stream, logs[Len(logs)], fa)]
            /\ returned' = Result(fa, step_observation_logs, sm_logs)
            /\ calls' = Append(calls, LlmCall("llm_final", iteration, reply.raises, reply.value))
    /\ prompt' = FinalAnswerPrompt(logs, is_mistral, run_task)
    /\ yielded' = IF stream THEN yielded \o <<Len(logs), 0>> ELSE yielded
    /\ pc' = "done"
    /\ UNCHANGED <<config, runargs, state, iteration, step_observation_logs, sm_logs,
                   locals, step_exc, step_ret, raised>>

\* PlanEntry recording the plan only.
PlanEntryWithoutFacts(first, facts, plan) ==
    IF first
    THEN [plan |-> <<"Here is the plan of action that I will follow to solve the task:", plan>>]
    ELSE [plan |-> <<"PLAN_UPDATE_FINAL_PLAN_REDACTION", plan>>]
\* The log entry planning_step appends.
PlanEntry(first, facts, plan) ==
    IF first
    THEN [plan |-> <<"Here is the plan of action that I will follow to solve the task:", plan>>,
          facts |-> <<"Here are the facts that I know so far:", facts>>]
    ELSE [plan |-> <<"PLAN_UPDATE_FINAL_PLAN_REDACTION", plan>>,
          facts |-> <<"Here is the updated list of the facts that I know:", facts>>]

\* planning_step, its first LLM call (the facts).  A failure of the LLM engine is
\* not wrapped: it leaves planning_step as it is.
PlanFacts ==
    /\ pc = "plan_facts"
    /\ \/ /\ answer_facts' = PyStr("facts")
          /\ calls' = Append(calls, LlmCall("llm_facts", iteration, FALSE, PyStr("facts")))
          /\ pc' = "plan_plan"
          /\ UNCHANGED step_exc
       \/ /\ step_exc' = Exc("Exception", <<"llm_engine">>)
          /\ calls' = Append(calls, LlmCall("llm_facts", iteration, TRUE, PyNone))
          /\ pc' = "tail"
          /\ UNCHANGED answer_facts
    /\ UNCHANGED <<config, runargs, state, logs, prompt, iteration, final_answer,
                   step_observation_logs, sm_logs, llm_output, action, step_ret,
                   yielded, returned, raised>>

\* planning_step, its second LLM call (the plan) and the entry it appends.
PlanPlan ==
    /\ pc = "plan_plan"
    /\ \/ /\ logs' = Append(logs, PlanEntry(iteration = 0, answer_facts, PyStr("plan")))
          /\ calls' = Append(calls, [LlmCall("llm_plan", iteration, FALSE, PyStr("plan"))
                                       EXCEPT !.received = answer_facts])
          /\ pc' = "step"
          /\ UNCHANGED step_exc
       \/ /\ step_exc' = Exc("Exception", <<"llm_engine">>)
          /\ calls' = Append(calls, [LlmCall("llm_plan", iteration, TRUE, PyNone)
                                       EXCEPT !.received = answer_facts])
          /\ pc' = "tail"
          /\ UNCHANGED logs
    /\ UNCHANGED <<config, runargs, state, prompt, iteration, final_answer,
                   step_observation_logs, sm_logs, locals, step_ret,
                   yielded, returned, raised>>

\* step(), from its start to the LLM call: the memory is built, the step's entry
\* appended, and the LLM engine returns an output or fails.
Generate ==
    /\ pc = "step"
    /\ LET agent_memory == write_inner_memory_from_logs(
                               logs, FALSE, StepMistral(agent_class, self_is_mistral))
           current_step_logs == [x \in {"agent_memory"} |-> agent_memory]
       IN  /\ prompt' = agent_memory
           /\ \/ \E out \in LLMOutputs(agent_class) :
                    /\ llm_output' = out
                    /\ logs' = Append(logs, SetField(current_step_logs, "llm_output", out))
                    /\ pc' = "parse"
                    /\ calls' = Append(calls, LlmCall("llm_step", iteration, FALSE, PyNone))
                    /\ UNCHANGED step_exc
              \/ /\ step_exc' = Exc("AgentGenerationError", <<"Error in generating llm output">>)
                 /\ calls' = Append(calls, LlmCall("llm_step", iteration, TRUE, PyNone))
                 /\ logs' = Append(logs, current_step_logs)
                 /\ pc' = "tail"
                 /\ UNCHANGED llm_output
    /\ UNCHANGED <<config, runargs, state, iteration, final_answer, step_observation_logs,
                   sm_logs, action, answer_facts, step_ret, yielded, returned, raised>>

\* step(), the parse of the LLM output.
Parse ==
    /\ pc = "parse"
    /\ LET r == StepParse(agent_class, llm_output, logs[Len(logs)])
       IN  /\ logs' = [logs EXCEPT ![Len(logs)] = r.entry]
           /\ action' = r.action
           /\ step_exc' = r.exc
           /\ pc' = IF r.exc.type = "none" THEN "execute" ELSE "tail"
    /\ UNCHANGED <<config, runargs, state, prompt, iteration, final_answer,
                   step_observation_logs, sm_logs, llm_output, answer_facts, step_ret,
                   yielded, returned, raised, calls>>

\* step(), the execution of the parsed action, to the step's return or raise.
Execute ==
    /\ pc = "execute"
    /\ \E outcome \in Outcomes(agent_class) :
        LET r == StepExecute(agent_class, action, logs[Len(logs)], state, toolbox, outcome)
        IN  /\ logs' = [logs EXCEPT ![Len(logs)] = r.entry]
            /\ state' = r.state
            /\ step_exc' = r.exc
            /\ step_ret' = r.ret
            /\ calls' = IF r.call.kind = "none" THEN calls
                        ELSE Append(calls, [kind |-> r.call.kind, iteration |-> iteration,
                                            received |-> r.call.received,
                                            failed |-> r.call.failed,
                                            result |-> r.call.result])
    /\ pc' = "tail"
    /\ UNCHANGED <<config, runargs, prompt, iteration, final_answer, step_observation_logs,
                   sm_logs, locals, yielded, returned, raised>>

\* The rest of the loop body once step() or planning_step() has returned or raised:
\* the unpacking of the step's result, the except clause, the finally clause.
LoopTail ==
    /\ pc = "tail"
    /\ LET entry == logs[Len(logs)]
           unpacked == step_exc.type = "none" /\ step_ret = UnpackTargets(stream)
           exc == IF step_exc.type = "none" /\ ~unpacked
                  THEN Exc("ValueError", <<"values to unpack", step_ret, UnpackTargets(stream)>>)
                  ELSE step_exc
           ob == IF "observation" \in DOMAIN entry THEN entry["observation"] ELSE PyStr("")
           sm == IF "summarization" \in DOMAIN entry THEN entry["summarization"] ELSE <<>>
       IN  /\ step_observation_logs' =
                  IF unpacked THEN Append(step_observation_logs, ob) ELSE step_observation_logs
           /\ sm_logs' = IF unpacked /\ ~stream THEN Append(sm_logs, sm) ELSE sm_logs
           /\ final_answer' = IF unpacked /\ "final_answer" \in DOMAIN entry
                              THEN entry["final_answer"] ELSE final_answer
           /\ logs' = IF IsAgentError(exc) THEN RecordError(logs, exc) ELSE logs
           /\ raised' = IF unpacked \/ IsAgentError(exc) THEN raised ELSE exc
           /\ pc' = IF unpacked \/ IsAgentError(exc) THEN "loop" ELSE "raised"
    /\ iteration' = iteration + 1
    /\ yielded' = IF stream THEN Append(yielded, Len(logs)) ELSE yielded
    /\ step_exc' = NoExc
    /\ step_ret' = 0
    /\ UNCHANGED <<config, runargs, state, prompt, locals, returned, calls>>

Next ==
    \/ Run
    \/ LoopTest
    \/ PlanFacts
    \/ PlanPlan
    \/ Generate
    \/ Parse
    \/ Execute
    \/ LoopTail
    \/ Recover

Spec == Init /\ [][Next]_vars

\* ------------------------------------------------- the single-shot CodeAgent
\* The prompt CodeAgent.run sends: the system prompt and the task.
CodeAgentPrompt(lg, mistral) ==
    <<Message(IF mistral THEN USER ELSE SYSTEM, lg[1]["system_prompt"]),
      Message(USER, <<"Task: ">> \o lg[1]["task"])>>
\* CodeAgentParse taking an output without a fenced block for empty code.
CodeAgentParseLenient(out) ==
    LET ea == extract_action(out)
        parsed == parse_code_blob(IF ea.ok THEN <<ea.value.action>> ELSE out)
    IN  IF parsed.ok THEN parsed ELSE Ok(<<>>)
\* The "# Parse" part of CodeAgent.run: the code after "Code:", or the whole output
\* when there is no "Code:", goes through parse_code_blob.
CodeAgentParse(out) ==
    LET ea == extract_action(out)
    IN  parse_code_blob(IF ea.ok THEN <<ea.value.action>> ELSE out)
\* The error strings CodeAgent.run returns.
CodeParsingErrorMsg == PyObj("str", "Error in code parsing")
CodeExecutionErrorMsg == PyObj("str", "Error in execution")

\* A CodeAgent as its constructor leaves it.
CodeAgentInit ==
    /\ agent_class = "CodeAgent"
    /\ max_iterations \in 1..MaxBudget
    /\ planning_interval = 0
    /\ self_is_mistral = FALSE
    /\ toolbox = add_tool(ToolboxOf({Tool("search")}), FinalAnswerTool).tools
    /\ task = <<>>
    /\ state = EmptyMap
    /\ logs = <<>>
    /\ prompt = <<>>
    /\ stream = FALSE
    /\ is_mistral = FALSE
    /\ run_task = <<>>
    /\ return_generated_code = FALSE
    /\ in_summary_mode = FALSE
    /\ reset = TRUE
    /\ pc = "idle"
    /\ iteration = 0
    /\ final_answer = PyNone
    /\ step_observation_logs = <<>>
    /\ sm_logs = <<>>
    /\ llm_output = <<>>
    /\ action = NoAction
    /\ answer_facts = PyNone
    /\ step_exc = NoExc
    /\ step_ret = 0
    /\ yielded = <<>>
    /\ returned = PyNone
    /\ raised = NoExc
    /\ calls = <<>>

\* CodeAgent.run up to its call of the LLM engine.
CodeAgentRun ==
    /\ pc = "idle"
    /\ agent_class = "CodeAgent"
    /\ \E kwargs \in Inputs, code_only \in BOOLEAN, mistral \in BOOLEAN :
        LET tsk == <<"task">> \o (IF DOMAIN kwargs # {}
                                  THEN <<"You have been provided with these initial arguments:",
                                         kwargs>>
                                  ELSE <<>>)
            lg == initialize_for_run(agent_class, toolbox, tsk)
        IN  /\ task' = tsk
            /\ run_task' = <<"task">>
            /\ state' = kwargs
            /\ logs' = lg
            /\ is_mistral' = mistral
            /\ return_generated_code' = code_only
            /\ prompt' = CodeAgentPrompt(lg, mistral)
    /\ pc' = "code_generate"
    /\ UNCHANGED <<config, stream, in_summary_mode, reset, iteration, final_answer,
                   step_observation_logs, sm_logs, locals, step_exc, step_ret, yielded,
                   returned, raised, calls>>

\* CodeAgent.run from the LLM engine's reply to the call of the evaluator: a failure
\* of the engine leaves run() as it is, the output is returned as it is when
\* return_generated_code is set, and a parsing failure is returned as a text.
CodeAgentGenerate ==
    /\ pc = "code_generate"
    /\ \/ /\ calls' = Append(calls, LlmCall("llm_code", 0, TRUE, PyNone))
          /\ raised' = Exc("Exception", <<"llm_engine">>)
          /\ pc' = "raised"
          /\ UNCHANGED <<llm_output, action, returned>>
       \/ \E out \in LLMOutputs(agent_class) :
            /\ calls' = Append(calls, LlmCall("llm_code", 0, FALSE, PyNone))
            /\ llm_output' = out
            /\ raised' = raised
            /\ IF return_generated_code
               THEN /\ returned' = PyObj("llm_output", "")
                    /\ pc' = "done"
                    /\ UNCHANGED action
               ELSE LET code_action == CodeAgentParse(out)
                    IN  IF ~code_action.ok
                        THEN /\ returned' = CodeParsingErrorMsg
                             /\ pc' = "done"
                             /\ UNCHANGED action
                        ELSE /\ action' = [tool_name |-> PyStr("code interpreter"),
                                           arguments |-> code_action.value]
                             /\ pc' = "code_execute"
                             /\ UNCHANGED returned
    /\ UNCHANGED <<config, runargs, state, logs, prompt, iteration, final_answer,
                   step_observation_logs, sm_logs, answer_facts, step_exc, step_ret, yielded>>

\* CodeAgent.run, the evaluation of the code: the evaluator's result is returned,
\* its failure is returned as a text.
CodeAgentExecute ==
    /\ pc = "code_execute"
    /\ \E outcome \in EvaluatorOutcomes :
        /\ calls' = Append(calls, [kind |-> "evaluator", iteration |-> 0,
                                   received |-> action.arguments,
                                   failed |-> outcome.raises, result |-> outcome.value])
        /\ state' = IF outcome.wrote THEN SetField(state, "print_outputs", PyStr("printed"))
                    ELSE state
        /\ returned' = IF outcome.raises THEN CodeExecutionErrorMsg ELSE outcome.value
    /\ pc' = "done"
    /\ UNCHANGED <<config, runargs, logs, prompt, iteration, final_answer,
                   step_observation_logs, sm_logs, locals, step_exc, step_ret, yielded, raised>>

CodeAgentNext == CodeAgentRun \/ CodeAgentGenerate \/ CodeAgentExecute
CodeAgentSpec == CodeAgentInit /\ [][CodeAgentNext]_vars

\* ------------------------------------------------- execute_tool_call by itself
\* The State, the tool names and the arguments execute_tool_call is applied to.
ExecStates ==
    { EmptyMap,
      [k \in {"image.png"} |-> PyObj("AgentImage", "img0")],
      [k \in {"image.png", "audio.mp3"} |->
          IF k = "image.png" THEN PyObj("AgentImage", "img0") ELSE PyObj("AgentAudio", "aud0")] }
ExecToolNames ==
    { PyStr("search"), PyStr("final_answer"), PyStr("unknown"),
      PyDict([k \in {"name"} |-> PyStr("search")]) }
ExecArguments ==
    { PyNone, PyStr("q"), PyStr("image.png"),
      Args("query", "q"), Args("query", "image.png"),
      PyDict([k \in {"query", "n"} |-> IF k = "query" THEN PyStr("image.png") ELSE PyStr("q")]),
      PyDict([k \in {"x", "y"} |-> IF k = "x" THEN PyStr("image.png") ELSE PyStr("audio.mp3")]),
      PyDict([k \in {"query", "n"} |-> IF k = "query" THEN PyStr("audio.mp3") ELSE PyNone]) }

\* A ReactJsonAgent about to execute a tool call.
ExecuteInit ==
    /\ agent_class = "ReactJsonAgent"
    /\ max_iterations = 1
    /\ planning_interval = 0
    /\ self_is_mistral = FALSE
    /\ toolbox = add_tool(ToolboxOf({Tool("search")}), FinalAnswerTool).tools
    /\ task = <<>>
    /\ state \in ExecStates
    /\ logs = <<>>
    /\ prompt = <<>>
    /\ stream = FALSE
    /\ is_mistral = FALSE
    /\ run_task = <<>>
    /\ return_generated_code = FALSE
    /\ in_summary_mode = FALSE
    /\ reset = TRUE
    /\ pc = "execute_tool_call"
    /\ iteration = 0
    /\ final_answer = PyNone
    /\ step_observation_logs = <<>>
    /\ sm_logs = <<>>
    /\ llm_output = <<>>
    /\ action \in [tool_name : ExecToolNames, arguments : ExecArguments]
    /\ answer_facts = PyNone
    /\ step_exc = NoExc
    /\ step_ret = 0
    /\ yielded = <<>>
    /\ returned = PyNone
    /\ raised = NoExc
    /\ calls = <<>>

\* One call of execute_tool_call: action holds the tool name and the arguments
\* dict, which the call may write into; step_exc is what it raises, returned the
\* observation it returns.
ExecuteToolCall ==
    /\ pc = "execute_tool_call"
    /\ \E outcome \in ToolOutcomes :
        LET r == execute_tool_call(action.tool_name, action.arguments, state, toolbox, outcome)
        IN  /\ step_exc' = r.exc
            /\ returned' = r.observation
            /\ action' = [action EXCEPT !.arguments = r.arguments]
            /\ calls' = IF r.called
                        THEN Append(calls, [kind |-> "tool", iteration |-> 0,
                                            received |-> r.received,
                                            failed |-> outcome.raises,
                                            result |-> outcome.value])
                        ELSE calls
    /\ pc' = "executed"
    /\ UNCHANGED <<config, runargs, state, logs, prompt, iteration, final_answer,
                   step_observation_logs, sm_logs, llm_output, answer_facts, step_ret,
                   yielded, raised>>

ExecuteNext == ExecuteToolCall
ExecuteSpec == ExecuteInit /\ [][ExecuteNext]_vars

\* ------------------------------------------- the toolbox of a constructed agent
\* The tools and the names the toolbox operations are called with.
ToolNames == {"final_answer", "search", "calculator"}
OtherTool(name) == [name |-> name, description |-> <<"another description of", name>>]
ToolboxTools == {Tool(n) : n \in ToolNames} \cup {OtherTool(n) : n \in ToolNames}
NoKeyError == NoExc
KeyError(message) == Exc("KeyError", message)

\* An agent as its constructor leaves it, before any run.
ToolboxInit ==
    /\ agent_class \in AgentClasses
    /\ max_iterations = 1
    /\ planning_interval = 0
    /\ self_is_mistral = FALSE
    /\ toolbox = add_tool(ToolboxOf({Tool("search")}), FinalAnswerTool).tools
    /\ task = <<>>
    /\ state = EmptyMap
    /\ logs = <<>>
    /\ prompt = <<>>
    /\ stream = FALSE
    /\ is_mistral = FALSE
    /\ run_task = <<>>
    /\ return_generated_code = FALSE
    /\ in_summary_mode = FALSE
    /\ reset = TRUE
    /\ pc = "idle"
    /\ iteration = 0
    /\ final_answer = PyNone
    /\ step_observation_logs = <<>>
    /\ sm_logs = <<>>
    /\ llm_output = <<>>
    /\ action = NoAction
    /\ answer_facts = PyNone
    /\ step_exc = NoExc
    /\ step_ret = 0
    /\ yielded = <<>>
    /\ returned = PyNone
    /\ raised = NoExc
    /\ calls = <<>>

\* The operations on agent.toolbox.  After each, pc names the operation, action
\* holds its argument and raised the KeyError it raised, if any.
AddTool ==
    /\ \E tool \in ToolboxTools :
        LET r == add_tool(toolbox, tool)
        IN  /\ toolbox' = r.tools
            /\ raised' = IF r.ok THEN NoKeyError
                         ELSE KeyError(<<"Error: tool", tool.name, "already exists in the toolbox.">>)
            /\ action' = tool
    /\ pc' = "add_tool"
    /\ UNCHANGED <<agent_class, max_iterations, planning_interval, self_is_mistral, runargs,
                   state, logs, prompt, iteration, final_answer, step_observation_logs,
                   sm_logs, llm_output, answer_facts, step_exc, step_ret, yielded, returned,
                   calls>>

RemoveTool ==
    /\ \E tool_name \in ToolNames :
        LET r == remove_tool(toolbox, tool_name)
        IN  /\ toolbox' = r.tools
            /\ raised' = IF r.ok THEN NoKeyError
                         ELSE KeyError(<<"Error: tool", tool_name,
                                         "not found in toolbox for removal, should be instead one of",
                                         DOMAIN toolbox>>)
            /\ action' = [name |-> tool_name]
    /\ pc' = "remove_tool"
    /\ UNCHANGED <<agent_class, max_iterations, planning_interval, self_is_mistral, runargs,
                   state, logs, prompt, iteration, final_answer, step_observation_logs,
                   sm_logs, llm_output, answer_facts, step_exc, step_ret, yielded, returned,
                   calls>>

UpdateTool ==
    /\ \E tool \in ToolboxTools :
        LET r == update_tool(toolbox, tool)
        IN  /\ toolbox' = r.tools
            /\ raised' = IF r.ok THEN NoKeyError
                         ELSE KeyError(<<"Error: tool", tool.name,
                                         "not found in toolbox for update, should be instead one of",
                                         DOMAIN toolbox>>)
            /\ action' = tool
    /\ pc' = "update_tool"
    /\ UNCHANGED <<agent_class, max_iterations, planning_interval, self_is_mistral, runargs,
                   state, logs, prompt, iteration, final_answer, step_observation_logs,
                   sm_logs, llm_output, answer_facts, step_exc, step_ret, yielded, returned,
                   calls>>

ClearToolbox ==
    /\ toolbox' = clear_toolbox(toolbox)
    /\ raised' = NoKeyError
    /\ action' = NoAction
    /\ pc' = "clear_toolbox"
    /\ UNCHANGED <<agent_class, max_iterations, planning_interval, self_is_mistral, runargs,
                   state, logs, prompt, iteration, final_answer, step_observation_logs,
                   sm_logs, llm_output, answer_facts, step_exc, step_ret, yielded, returned,
                   calls>>

\* Agent.__init__(tools=agent.toolbox): another agent built on the same Toolbox.
\* The constructor keeps the Toolbox it is given and adds a FinalAnswerTool to it.
ConstructAgent ==
    /\ LET r == add_tool(toolbox, FinalAnswerTool)
       IN  /\ toolbox' = r.tools
           /\ raised' = IF r.ok THEN NoKeyError
                        ELSE KeyError(<<"Error: tool", FinalAnswerTool.name,
                                        "already exists in the toolbox.">>)
    /\ action' = FinalAnswerTool
    /\ pc' = "__init__"
    /\ UNCHANGED <<agent_class, max_iterations, planning_interval, self_is_mistral, runargs,
                   state, logs, prompt, iteration, final_answer, step_observation_logs,
                   sm_logs, llm_output, answer_facts, step_exc, step_ret, yielded, returned,
                   calls>>

ToolboxNext == AddTool \/ RemoveTool \/ UpdateTool \/ ClearToolbox \/ ConstructAgent
ToolboxSpec == ToolboxInit /\ [][ToolboxNext]_vars

\* ------------------------------------------ the memory builder, on any log
\* The most entries after the first of a log the builder is called on.
MaxEntries == 2

\* The entry one whole step() leaves at the end of the log lg, the run loop's
\* record of the step's AgentError included.
StepEntry(cls, lg, tb, out, outcome) ==
    LET agent_memory == write_inner_memory_from_logs(lg, FALSE, FALSE)
        current_step_logs == SetField([x \in {"agent_memory"} |-> agent_memory],
                                      "llm_output", out)
        parsed == StepParse(cls, out, current_step_logs)
        executed == StepExecute(cls, parsed.action, parsed.entry, EmptyMap, tb, outcome)
    IN  IF parsed.exc.type # "none"
        THEN (IF IsAgentError(parsed.exc) THEN SetField(parsed.entry, "error", parsed.exc)
              ELSE parsed.entry)
        ELSE IF IsAgentError(executed.exc) THEN SetField(executed.entry, "error", executed.exc)
        ELSE executed.entry
\* The entry of a step() whose LLM call failed.
GenerationErrorEntry(lg) ==
    [agent_memory |-> write_inner_memory_from_logs(lg, FALSE, FALSE),
     error |-> Exc("AgentGenerationError", <<"Error in generating llm output">>)]
\* The entry of the fallback after the iteration budget is used up.
MaxIterationsEntries ==
    LET entry == [error |-> Exc("AgentMaxIterationsError", <<"Reached max iterations.">>)]
    IN  { FallbackEntry(strm, entry, provide_final_answer(reply)) :
             strm \in BOOLEAN, reply \in FinalReplies }
\* The entries a run can append to the log lg: a step's, a planning step's, the
\* fallback's, and the task of a run(reset=False).
NextEntries(cls, lg, tb) ==
    { StepEntry(cls, lg, tb, out, outcome) : out \in LLMOutputs(cls), outcome \in Outcomes(cls) }
    \cup { GenerationErrorEntry(lg) }
    \cup { PlanEntry(first, PyStr("facts"), PyStr("plan")) : first \in BOOLEAN }
    \cup MaxIterationsEntries
    \cup { [x \in {"task"} |-> <<"task">>] }
\* The logs of n entries after the first.
RECURSIVE MemoryLogs(_, _, _)
MemoryLogs(cls, tb, n) ==
    IF n = 0 THEN { initialize_for_run(cls, tb, <<"task">>) }
    ELSE UNION { { Append(lg, e) : e \in NextEntries(cls, lg, tb) } :
                    lg \in MemoryLogs(cls, tb, n - 1) }

\* An agent with a log, nobody building a memory from it yet.
MemoryInit ==
    /\ agent_class \in AgentClasses
    /\ max_iterations = 1
    /\ planning_interval = 0
    /\ self_is_mistral = FALSE
    /\ toolbox = add_tool(ToolboxOf({Tool("search")}), FinalAnswerTool).tools
    /\ task = <<"task">>
    /\ state = EmptyMap
    /\ logs \in UNION { MemoryLogs(agent_class, toolbox, n) : n \in 0..MaxEntries }
    /\ prompt = <<>>
    /\ stream = FALSE
    /\ is_mistral = FALSE
    /\ run_task = <<"task">>
    /\ return_generated_code = FALSE
    /\ in_summary_mode = FALSE
    /\ reset = TRUE
    /\ pc = "memory"
    /\ iteration = 0
    /\ final_answer = PyNone
    /\ step_observation_logs = <<>>
    /\ sm_logs = <<>>
    /\ llm_output = <<>>
    /\ action = NoAction
    /\ answer_facts = PyNone
    /\ step_exc = NoExc
    /\ step_ret = 0
    /\ yielded = <<>>
    /\ returned = <<>>
    /\ raised = NoExc
    /\ calls = <<>>

\* BuildMemory changing the log it reads: it drops the last entry.
BuildMemoryConsumingLog ==
    /\ pc \in {"memory", "built"}
    /\ \E sm \in BOOLEAN, mistral \in BOOLEAN :
        /\ pc = "built" => (sm = in_summary_mode /\ mistral = is_mistral)
        /\ in_summary_mode' = sm
        /\ is_mistral' = mistral
        /\ returned' = write_inner_memory_from_logs(logs, sm, mistral)
    /\ logs' = IF Len(logs) > 1 THEN SubSeq(logs, 1, Len(logs) - 1) ELSE logs
    /\ pc' = IF pc = "memory" THEN "built" ELSE "rebuilt"
    /\ UNCHANGED <<config, task, stream, run_task, return_generated_code, reset, state, prompt,
                   iteration, final_answer, step_observation_logs, sm_logs, locals, step_exc,
                   step_ret, yielded, raised, calls>>
\* A call of write_inner_memory_from_logs: the first with any flags, the second
\* with the flags of the first.  returned holds the messages it returns.
BuildMemory ==
    /\ pc \in {"memory", "built"}
    /\ \E sm \in BOOLEAN, mistral \in BOOLEAN :
        /\ pc = "built" => (sm = in_summary_mode /\ mistral = is_mistral)
        /\ in_summary_mode' = sm
        /\ is_mistral' = mistral
        /\ returned' = write_inner_memory_from_logs(logs, sm, mistral)
    /\ pc' = IF pc = "memory" THEN "built" ELSE "rebuilt"
    /\ UNCHANGED <<config, task, stream, run_task, return_generated_code, reset, state, logs,
                   prompt,
                   iteration, final_answer, step_observation_logs, sm_logs, locals, step_exc,
                   step_ret, yielded, raised, calls>>

MemoryNext == BuildMemory
MemorySpec == MemoryInit /\ [][MemoryNext]_vars

\* ------------------------------------------------ a run after an earlier run
\* The most entries after the first that the earlier run has left in the log.
MaxEarlierEntries == 1
\* What the earlier run has left in State.
LeftInState == [k \in {"audio.mp3"} |-> PyObj("AgentAudio", "aud0")]

\* An agent on which a run has ended, with the log and the State that run left.
FollowUpInit ==
    /\ agent_class \in AgentClasses
    /\ max_iterations = 1
    /\ planning_interval = 1
    /\ self_is_mistral = FALSE
    /\ toolbox = add_tool(ToolboxOf({Tool("search")}), FinalAnswerTool).tools
    /\ task = <<"task">>
    /\ state = LeftInState
    /\ logs \in UNION { MemoryLogs(agent_class, toolbox, n) : n \in 0..MaxEarlierEntries }
    /\ prompt = <<>>
    /\ stream = FALSE
    /\ is_mistral = FALSE
    /\ run_task = <<"task">>
    /\ return_generated_code = FALSE
    /\ in_summary_mode = FALSE
    /\ reset = TRUE
    /\ pc = "idle"
    /\ iteration = 0
    /\ final_answer = PyNone
    /\ step_observation_logs = <<>>
    /\ sm_logs = <<>>
    /\ llm_output = <<>>
    /\ action = NoAction
    /\ answer_facts = PyNone
    /\ step_exc = NoExc
    /\ step_ret = 0
    /\ yielded = <<>>
    /\ returned = Result(PyNone, <<>>, <<>>)
    /\ raised = NoExc
    /\ calls = <<>>

\* RunAfterRun adding the inputs to the State the earlier run left.
RunAfterRunKeepingState ==
    /\ pc = "idle"
    /\ \E kwargs \in Inputs, strm \in BOOLEAN, rst \in BOOLEAN :
        LET tsk == <<"follow-up task">>
                   \o (IF DOMAIN kwargs # {}
                       THEN <<"You have been provided with these initial arguments:", kwargs>>
                       ELSE <<>>)
        IN  /\ task' = tsk
            /\ run_task' = <<"follow-up task">>
            /\ state' = [k \in DOMAIN state \cup DOMAIN kwargs |->
                            IF k \in DOMAIN kwargs THEN kwargs[k] ELSE state[k]]
            /\ logs' = IF rst THEN initialize_for_run(agent_class, toolbox, tsk)
                       ELSE Append(logs, [x \in {"task"} |-> <<"follow-up task">>])
            /\ stream' = strm
            /\ reset' = rst
    /\ pc' = "loop"
    /\ iteration' = 0
    /\ final_answer' = PyNone
    /\ step_observation_logs' = <<>>
    /\ sm_logs' = <<>>
    /\ UNCHANGED <<config, is_mistral, return_generated_code, in_summary_mode, prompt, locals,
                   step_exc, step_ret, yielded, returned, raised, calls>>
\* ReactAgent.run on an agent that has run before, with reset = True or False, up
\* to the first test of the loop.
RunAfterRun ==
    /\ pc = "idle"
    /\ \E kwargs \in Inputs, strm \in BOOLEAN, rst \in BOOLEAN :
        LET tsk == <<"follow-up task">>
                   \o (IF DOMAIN kwargs # {}
                       THEN <<"You have been provided with these initial arguments:", kwargs>>
                       ELSE <<>>)
        IN  /\ task' = tsk
            /\ run_task' = <<"follow-up task">>
            /\ state' = kwargs
            /\ logs' = IF rst THEN initialize_for_run(agent_class, toolbox, tsk)
                       ELSE Append(logs, [x \in {"task"} |-> <<"follow-up task">>])
            /\ stream' = strm
            /\ reset' = rst
    /\ pc' = "loop"
    /\ iteration' = 0
    /\ final_answer' = PyNone
    /\ step_observation_logs' = <<>>
    /\ sm_logs' = <<>>
    /\ UNCHANGED <<config, is_mistral, return_generated_code, in_summary_mode, prompt, locals,
                   step_exc, step_ret, yielded, returned, raised, calls>>

FollowUpNext ==
    \/ RunAfterRun
    \/ LoopTest
    \/ PlanFacts
    \/ PlanPlan
    \/ Generate
    \/ Parse
    \/ Execute
    \/ LoopTail
    \/ Recover
FollowUpSpec == FollowUpInit /\ [][FollowUpNext]_vars

\* --------------------------------------------------- the parsers, on any text
\* The most lines of a text given to parse_code_blob.
MaxLines == 5

\* A text for parse_code_blob is the tuple of its lines.  A line is a fence line
\* (three backquotes alone, or followed by py, or followed by json), a blank line
\* or a line of other text; line is its number in the text and stands for what
\* it says.
LineKinds == {"text", "blank", "fence", "fence py", "fence json"}
CodeTexts ==
    UNION { { [i \in 1..n |-> [line |-> i, kind |-> kinds[i]]] : kinds \in [1..n -> LineKinds] } :
              n \in 1..MaxLines }
\* The head of the pattern (three backquotes, py or python or nothing, a newline)
\* matches at the end of the first lines; its tail (a newline, three backquotes)
\* at the start of the second.
MatchesOpening(l) == l.kind \in {"fence", "fence py"}
MatchesClosing(l) == l.kind \in {"fence", "fence py", "fence json"}
\* re.search(pattern, code_blob, re.DOTALL): the leftmost opening after which the
\* rest of the pattern can match, and the nearest closing for it; group 1 is the
\* lines between the two, of which there is at least one.
NoMatch == [found |-> FALSE, group |-> <<>>]
code_blob_search(code_blob) ==
    LET closings(i) == {j \in (i + 2)..Len(code_blob) : MatchesClosing(code_blob[j])}
        openings == {i \in 1..(Len(code_blob) - 1) :
                        MatchesOpening(code_blob[i]) /\ closings(i) # {}}
    IN  IF openings = {} THEN NoMatch
        ELSE LET i == CHOOSE x \in openings : \A y \in openings : x <= y
                 j == CHOOSE x \in closings(i) : \A y \in closings(i) : x <= y
             IN  [found |-> TRUE, group |-> SubSeq(code_blob, i + 1, j - 1)]
\* str.strip() on lines: the blank lines at both ends go.
RECURSIVE strip(_)
strip(lines) ==
    IF lines = <<>> THEN <<>>
    ELSE IF lines[1].kind = "blank" THEN strip(Tail(lines))
    ELSE IF lines[Len(lines)].kind = "blank" THEN strip(SubSeq(lines, 1, Len(lines) - 1))
    ELSE lines
\* parse_code_blob on the lines of a text.
parse_code_lines(code_blob) ==
    LET match == code_blob_search(code_blob)
    IN  IF match.found THEN Ok(strip(match.group))
        ELSE Err(<<"The code blob you used is invalid">>)

\* The blobs for parse_json_tool_call: text without braces, braces that are not
\* JSON, several objects, and the objects over these keys and values.
JsonValues(key) ==
    IF key = "action" THEN {PyStr("search"), PyStr("final_answer")}
    ELSE IF key = "action_input" THEN {PyStr("q"), Args("query", "q"), PyNone}
    ELSE {PyStr("t")}
JsonBlobs ==
    {JText, JMalformed, [form |-> "multi", obj |-> EmptyMap]}
    \cup UNION { { JBlob(obj) : obj \in {f \in [keys -> UNION {JsonValues(k) : k \in keys}] :
                                            \A k \in keys : f[k] \in JsonValues(k)} } :
                   keys \in SUBSET {"action", "action_input", "thought"} }

ValueError(message) == Exc("ValueError", message)

\* A text about to be parsed; llm_output holds it under the parser's parameter.
ParserInit ==
    /\ agent_class = "ReactJsonAgent"
    /\ max_iterations = 1
    /\ planning_interval = 0
    /\ self_is_mistral = FALSE
    /\ toolbox = add_tool(ToolboxOf({Tool("search")}), FinalAnswerTool).tools
    /\ task = <<>>
    /\ state = EmptyMap
    /\ logs = <<>>
    /\ prompt = <<>>
    /\ stream = FALSE
    /\ is_mistral = FALSE
    /\ run_task = <<>>
    /\ return_generated_code = FALSE
    /\ in_summary_mode = FALSE
    /\ reset = TRUE
    /\ pc = "text"
    /\ iteration = 0
    /\ final_answer = PyNone
    /\ step_observation_logs = <<>>
    /\ sm_logs = <<>>
    /\ llm_output \in { [code_blob |-> t] : t \in CodeTexts }
                      \cup { [json_blob |-> b] : b \in JsonBlobs }
    /\ action = NoAction
    /\ answer_facts = PyNone
    /\ step_exc = NoExc
    /\ step_ret = 0
    /\ yielded = <<>>
    /\ returned = PyNone
    /\ raised = NoExc
    /\ calls = <<>>

\* parse_code_blob(code_blob): returned holds what it returns, raised its ValueError.
ParseCodeBlob ==
    /\ pc = "text"
    /\ "code_blob" \in DOMAIN llm_output
    /\ LET r == parse_code_lines(llm_output["code_blob"])
       IN  /\ returned' = r.value
           /\ raised' = IF r.ok THEN NoExc ELSE ValueError(r.error)
    /\ pc' = "parse_code_blob"
    /\ UNCHANGED <<config, runargs, state, logs, prompt, iteration, final_answer,
                   step_observation_logs, sm_logs, locals, step_exc, step_ret, yielded, calls>>

\* parse_json_tool_call(json_blob).
ParseJsonToolCall ==
    /\ pc = "text"
    /\ "json_blob" \in DOMAIN llm_output
    /\ LET r == parse_json_tool_call(llm_output["json_blob"])
       IN  /\ returned' = r.value
           /\ raised' = IF r.ok THEN NoExc ELSE ValueError(r.error)
    /\ pc' = "parse_json_tool_call"
    /\ UNCHANGED <<config, runargs, state, logs, prompt, iteration, final_answer,
                   step_observation_logs, sm_logs, locals, step_exc, step_ret, yielded, calls>>

ParserNext == ParseCodeBlob \/ ParseJsonToolCall
ParserSpec == ParserInit /\ [][ParserNext]_vars

\* ------------------------------------------------------ reading the history
\* The log entries appended by step(), by planning_step() and by the fallback.
StepIndexes == {i \in 2..Len(logs) : "agent_memory" \in DOMAIN logs[i]}
PlanIndexes == {i \in 2..Len(logs) : "plan" \in DOMAIN logs[i]}
IsFallback(e) == "error" \in DOMAIN e /\ e["error"].type = "AgentMaxIterationsError"
FallbackIndexes == {i \in 1..Len(logs) : IsFallback(logs[i])}
HasError(e, type) == "error" \in DOMAIN e /\ e["error"].type = type
\* The calls of one kind, and those to a tool, the code evaluator or the search tool.
CallIndexes(cs, kind) == {i \in DOMAIN cs : cs[i].kind = kind}
ExecCalls(cs) == {i \in DOMAIN cs : cs[i].kind \in {"tool", "evaluator", "search"}}
Terminated == pc \in {"done", "raised"}
LastEntry == logs[Len(logs)]
LastCall == calls[Len(calls)]
NoCallFailed == \A i \in DOMAIN calls : ~calls[i].failed
\* The number of planning calls direct_run makes in a run that uses its whole budget.
PlannedCount ==
    IF stream \/ planning_interval = 0 THEN 0
    ELSE Cardinality({i \in 0..(max_iterations - 1) : i % planning_interval = 0})
AllStepsParseFailed == \A i \in StepIndexes : HasError(logs[i], "AgentParsingError")

\* ------------------------------------------------------------------ claims

\* C1: for every budget N >= 1, a run in which no step yields a final answer
\* executes exactly N step iterations, leaves exactly N step entries in the log
\* followed by exactly one MaxIterationsError entry, and issues exactly one
\* recovery call.  (Stated for the runs whose planning calls, if any, all
\* succeeded.)
C1_ExhaustedRunShape ==
    (/\ Terminated
     /\ \A i \in StepIndexes : "final_answer" \notin DOMAIN logs[i]
     /\ \A c \in CallIndexes(calls, "llm_facts") \cup CallIndexes(calls, "llm_plan") :
            ~calls[c].failed) =>
        /\ iteration = max_iterations
        /\ Cardinality(StepIndexes) = max_iterations
        /\ Cardinality(CallIndexes(calls, "llm_step")) = max_iterations
        /\ FallbackIndexes = {Len(logs)}
        /\ Cardinality(CallIndexes(calls, "llm_final")) = 1

\* C2: once a step has recorded a final answer the run stops: nothing is appended
\* to the log after that step's entry (no further step, no planning entry, no
\* MaxIterationsError entry), no further LLM, tool or recovery call is made, and
\* the run returns exactly that answer.
C2_FinalAnswerStopsRun ==
    \A i \in StepIndexes : "final_answer" \in DOMAIN logs[i] =>
        /\ i = Len(logs)
        /\ CallIndexes(calls, "llm_final") = {}
        /\ LastCall.kind \in {"llm_step", "evaluator"}
        /\ pc \in {"execute", "tail", "loop", "done"}
        /\ (pc = "done" => returned.final_answer = logs[i]["final_answer"])

\* C3: an agent error (parsing, execution, generation) raised by the step of
\* iteration i goes into the error field of the entry that step appended, every
\* other entry staying as it was; it does not leave the run; the iteration counter
\* moves on by one and, while budget remains, the next iteration starts.
C3_ErrorRecordedInOwnEntry ==
    [][ /\ (pc = "tail" /\ IsAgentError(step_exc)) =>
              /\ Len(logs) \in StepIndexes
              /\ Cardinality(StepIndexes) = Cardinality(CallIndexes(calls, "llm_step"))
              /\ LastCall.iteration = iteration
              /\ logs' = [logs EXCEPT ![Len(logs)] = SetField(LastEntry, "error", step_exc)]
              /\ "error" \notin DOMAIN LastEntry
              /\ pc' = "loop"
              /\ raised' = NoExc
              /\ iteration' = iteration + 1
        /\ (/\ pc = "loop"
            /\ Len(logs) \in StepIndexes
            /\ "error" \in DOMAIN LastEntry
            /\ iteration < max_iterations) => pc' \in {"plan_facts", "step"}
      ]_vars
\* A run in which the step of one iteration failed with an execution error, was
\* followed by another iteration, and that one failed with a generation error.
C3_Witness ==
    \E i, j \in StepIndexes :
        /\ i < j
        /\ HasError(logs[i], "AgentExecutionError")
        /\ HasError(logs[j], "AgentGenerationError")

C5_FailedRecoveryGivesNoAnswer ==
    (pc = "done" /\ calls # <<>> /\ LastCall.kind = "llm_final" /\ LastCall.failed) =>
        /\ IsNone(returned.final_answer)
        /\ "final_answer" \notin DOMAIN LastEntry
        /\ IsFallback(LastEntry)

\* C6: a run of the iterative loop never raises, whatever fails in it.
C6_RunNeverRaises == pc # "raised" /\ raised.type = "none"

\* C7: when every call to a collaborator returns, the run ends DONE after at most
\* N step iterations and N GENERATE calls, through a step's final answer or
\* through the single fallback, the iteration counter counting the loop passes.
C7_RunEndsDoneWithinBudget ==
    (Terminated /\ NoCallFailed) =>
        /\ pc = "done"
        /\ iteration <= max_iterations
        /\ Cardinality(CallIndexes(calls, "llm_step")) = iteration
        /\ \/ /\ FallbackIndexes = {}
              /\ \E i \in StepIndexes :
                    /\ "final_answer" \in DOMAIN logs[i]
                    /\ logs[i]["final_answer"] = returned.final_answer
           \/ /\ FallbackIndexes = {Len(logs)}
              /\ Cardinality(CallIndexes(calls, "llm_final")) = 1

\* C8: when the parsed action of a structured-call step names final_answer, the
\* step records final_answer in its entry, invokes no tool, and the run goes to
\* DONE in that iteration, no further iteration being started, whatever the
\* arguments.
C8_FinalAnswerActionEndsRun ==
    agent_class = "ReactJsonAgent" =>
        \A i \in StepIndexes :
            (/\ "tool_call" \in DOMAIN logs[i]
             /\ logs[i]["tool_call"].tool_name = PyStr("final_answer")
             /\ ~(i = Len(logs) /\ pc = "execute")) =>
                /\ "final_answer" \in DOMAIN logs[i]
                /\ i = Len(logs)
                /\ \A c \in ExecCalls(calls) : calls[c].iteration < LastCall.iteration
                /\ pc \in {"tail", "loop", "done"}

\* Whether the parsers reject the output: for the search variant, whether it has
\* neither a "Search:" nor a "Final Answer:" marker.
ParseFails(cls, out) ==
    IF cls = "ReactJsonAgent"
    THEN IF extract_action(out).ok
         THEN ~parse_json_tool_call(extract_action(out).value.action).ok
         ELSE TRUE
    ELSE IF cls = "ReactCodeAgent"
    THEN ~parse_code_blob(IF extract_action(out).ok
                          THEN <<extract_action(out).value.action>> ELSE out).ok
    ELSE Len(out) < 2 /\ ~HasFinalAnswer(out)

\* C9: within one iteration a failed GENERATE prevents PARSE and EXECUTE and a
\* failed PARSE prevents EXECUTE: only the execute part of a step changes State or
\* calls a tool, the code evaluator or the search tool; it is entered only from a
\* parse, hence after a successful generation, and never with an output the
\* parsers reject, except in the search variant, where it then calls nothing and
\* leaves State as it is.
C9_FailureSkipsExecution ==
    [][ /\ pc \in {"loop", "plan_facts", "plan_plan", "step", "parse", "tail", "recover"} =>
              (state' = state /\ ExecCalls(calls') = ExecCalls(calls))
        /\ pc' = "execute" =>
              /\ pc = "parse"
              /\ "llm_output" \in DOMAIN LastEntry
              /\ ~LastCall.failed
              /\ agent_class # "ReactCodeSearchAgent" => ~ParseFails(agent_class, llm_output)
        /\ (pc = "step" /\ pc' # "parse") => (pc' = "tail" /\ LastCall'.failed)
        /\ (pc = "parse" /\ ParseFails(agent_class, llm_output)
                /\ agent_class # "ReactCodeSearchAgent") => pc' = "tail"
        /\ (pc = "execute" /\ ParseFails(agent_class, llm_output)) =>
              (state' = state /\ calls' = calls)
      ]_vars
\* A run given an input in which one step failed to generate and another failed to
\* parse: no tool was called and State is the run's input.
C9_Witness ==
    /\ pc = "loop"
    /\ \E i, j \in StepIndexes :
          /\ HasError(logs[i], "AgentGenerationError")
          /\ HasError(logs[j], "AgentParsingError")
          /\ "tool_call" \notin DOMAIN logs[j]
    /\ ExecCalls(calls) = {}
    /\ DOMAIN state = {"image.png"}

\* C10: in every log entry of a regular iteration at most one of final_answer and
\* error is set; the only entry that may carry both is the fallback entry, the
\* last of the log.
C10_FinalAnswerOrError ==
    \A i \in 1..Len(logs) :
        ("final_answer" \in DOMAIN logs[i] /\ "error" \in DOMAIN logs[i]) =>
            (IsFallback(logs[i]) /\ i = Len(logs) /\ i \notin StepIndexes)
\* A finished run whose log holds a step entry with a final answer (None, so the
\* run went on), a step entry with an error, and the fallback entry with both.
C10_Witness ==
    /\ pc = "done"
    /\ IsFallback(LastEntry)
    /\ "final_answer" \in DOMAIN LastEntry
    /\ \E i, j \in StepIndexes :
          /\ "final_answer" \in DOMAIN logs[i]
          /\ "error" \in DOMAIN logs[j]

\* The number of planning entries direct_run has appended once i iterations are
\* completed.
PlansBefore(i) ==
    IF stream \/ planning_interval = 0 THEN 0
    ELSE Cardinality({j \in 0..(i - 1) : j % planning_interval = 0})

\* C11 as claimed: after i completed iterations of a run the log holds exactly
\* i + 1 entries, entry 0 plus one entry per iteration.
C11_LogLength == pc = "loop" => Len(logs) = iteration + 1
\* C11 as amended: after i completed iterations of a run that started with a fresh
\* log, the log holds i + 1 entries plus one planning entry for every iteration
\* j < i with j mod planning_interval = 0 of a direct run with a planning interval.
C11_LogLengthWithPlans ==
    pc = "loop" =>
        /\ Len(logs) = iteration + 1 + PlansBefore(iteration)
        /\ Cardinality(StepIndexes) = iteration
        /\ Cardinality(PlanIndexes) = PlansBefore(iteration)
\* Two completed iterations of a direct run that planned before each of them, the
\* first of which failed: the log has 5 entries.
C11_Witness ==
    /\ pc = "loop"
    /\ iteration = 2
    /\ ~stream
    /\ PlansBefore(iteration) = 2
    /\ "error" \in DOMAIN logs[3]
    /\ Len(logs) = 5

\* The calls planning_step made to the LLM engine.
PlanningCalls == CallIndexes(calls, "llm_facts") \cup CallIndexes(calls, "llm_plan")

\* C12: with planning_interval = k the Planner is invoked at the start of
\* iteration i, before that iteration's GENERATE, if and only if i mod k = 0, and
\* with is_first_step true only at iteration 0; with planning_interval unset the
\* Planner is never invoked.
C12_PlanningSchedule ==
    /\ planning_interval = 0 => PlanningCalls = {}
    /\ planning_interval # 0 =>
          /\ \A p \in PlanningCalls : calls[p].iteration % planning_interval = 0
          /\ \A c \in CallIndexes(calls, "llm_step") :
                (calls[c].iteration % planning_interval = 0) <=>
                    \E p \in CallIndexes(calls, "llm_plan") :
                        p < c /\ calls[p].iteration = calls[c].iteration
          /\ \A i \in PlanIndexes :
                (logs[i] = PlanEntry(TRUE, PyStr("facts"), PyStr("plan"))) <=> i = 2

\* C13: on the same task, configuration and collaborator responses streaming and
\* direct mode make the same run: wherever a run is, what it does next is what the
\* other mode would do there (whether it plans before the step, whether it accepts
\* what the step returned, what the fallback entry records), and a streaming run
\* has yielded exactly the records appended to the log, in order, one per
\* completed iteration, followed by the fallback record on exhaustion.
C13_ModesAgree ==
    /\ (pc = "loop" /\ LoopContinues(final_answer, iteration, max_iterations)) =>
          (PlanningDue(TRUE, planning_interval, iteration)
              <=> PlanningDue(FALSE, planning_interval, iteration))
    /\ (pc = "tail" /\ step_exc.type = "none") =>
          ((step_ret = UnpackTargets(TRUE)) <=> (step_ret = UnpackTargets(FALSE)))
    /\ pc = "recover" =>
          \A reply \in FinalReplies :
              FallbackEntry(TRUE, LastEntry, provide_final_answer(reply))
                  = FallbackEntry(FALSE, LastEntry, provide_final_answer(reply))
    /\ (stream /\ pc = "loop") =>
          /\ yielded = [i \in 1..iteration |-> i + 1]
          /\ \A i \in 1..iteration : yielded[i] \in StepIndexes
    /\ (stream /\ pc = "done" /\ IsFallback(LastEntry)) =>
          yielded = [i \in 1..(Len(logs) - 1) |-> i + 1] \o <<0>>

\* Whether the text CodeAgent.run parses, the part after the last "Code:" or the
\* whole output when there is no "Code:", holds no fenced block.
NoFencedCode(out) ==
    IF Len(out) >= 2 THEN ~out[Len(out)].fence ELSE \A i \in DOMAIN out : ~out[i].fence

\* C14: a single-shot CodeAgent run makes exactly one LLM call and at most one
\* call of the code evaluator, and appends nothing to the log beyond entry 0; an
\* output the parser rejects is answered by an error text with no call of the
\* evaluator, a failure of the evaluator by an error text, and a successful
\* evaluation by the evaluator's result.
C14_SingleShot ==
    pc \in {"code_execute", "done"} =>
        /\ Cardinality(CallIndexes(calls, "llm_code")) = 1
        /\ Cardinality(ExecCalls(calls)) <= 1
        /\ Len(logs) = 1
        /\ ~return_generated_code =>
              /\ NoFencedCode(llm_output) =>
                    (pc = "done" /\ returned = CodeParsingErrorMsg /\ ExecCalls(calls) = {})
              /\ (pc = "done" /\ ~NoFencedCode(llm_output)) =>
                    /\ LastCall.kind = "evaluator"
                    /\ returned = IF LastCall.failed THEN CodeExecutionErrorMsg
                                  ELSE LastCall.result
\* A run whose code, found without a "Code:" marker, was evaluated and gave "a1".
C14_Witness ==
    /\ pc = "done"
    /\ agent_class = "CodeAgent"
    /\ ~extract_action(llm_output).ok
    /\ ExecCalls(calls) # {}
    /\ ~LastCall.failed
    /\ returned = PyStr("a1")
    /\ Len(logs) = 1

\* C15: when execute_tool_call is given a mapping of arguments for a tool of the
\* toolbox, the tool receives the mapping with every value that is a key of State
\* replaced by State's value for it and every other value as it was, and State is
\* left as it was.
C15_StateSubstitution ==
    [][ (/\ pc = "execute_tool_call"
         /\ IsDict(action.arguments)
         /\ IsStr(action.tool_name)
         /\ action.tool_name.s \in DOMAIN toolbox) =>
            /\ Len(calls') = Len(calls) + 1
            /\ LastCall'.kind = "tool"
            /\ IsDict(LastCall'.received)
            /\ DOMAIN LastCall'.received.d = DOMAIN action.arguments.d
            /\ \A key \in DOMAIN action.arguments.d :
                  LastCall'.received.d[key] =
                      IF /\ IsStr(action.arguments.d[key])
                         /\ action.arguments.d[key].s \in DOMAIN state
                      THEN state[action.arguments.d[key].s]
                      ELSE action.arguments.d[key]
            /\ state' = state
      ]_vars
\* A call that received the stored image for "image.png" and "q" as it was given.
C15_Witness ==
    /\ pc = "executed"
    /\ calls # <<>>
    /\ DOMAIN state = {"image.png"}
    /\ IsDict(LastCall.received)
    /\ DOMAIN LastCall.received.d = {"query", "n"}
    /\ LastCall.received.d["query"] = PyObj("AgentImage", "img0")
    /\ LastCall.received.d["n"] = PyStr("q")

\* C16: execute_tool_call with a tool name that is not in the toolbox raises an
\* execution error that lists the names of the toolbox, invokes no tool and leaves
\* State and the toolbox as they were.
C16_UnknownTool ==
    [][ (/\ pc = "execute_tool_call"
         /\ IsStr(action.tool_name)
         /\ action.tool_name.s \notin DOMAIN toolbox) =>
            /\ step_exc'.type = "AgentExecutionError"
            /\ Len(step_exc'.message) = 4
            /\ step_exc'.message[2] = action.tool_name
            /\ step_exc'.message[4] = DOMAIN toolbox
            /\ calls' = calls
            /\ state' = state
            /\ toolbox' = toolbox
            /\ action' = action
      ]_vars
\* A call for the tool "unknown" with arguments naming a State key has failed.
C16_Witness ==
    /\ pc = "executed"
    /\ action.tool_name = PyStr("unknown")
    /\ action.arguments = Args("query", "image.png")
    /\ "image.png" \in DOMAIN state
    /\ step_exc.type = "AgentExecutionError"
    /\ calls = <<>>

\* Whether the last call made was to a tool, the code evaluator or the search tool
\* and failed.
LastInvocationFailed ==
    /\ calls # <<>>
    /\ LastCall.kind \in {"tool", "evaluator", "search"}
    /\ LastCall.failed

\* C17: a failure raised while a tool, the code evaluator or the search tool is
\* invoked leaves the step as an execution error, is recorded as such in the entry
\* of that iteration, and never leaves the run.
C17_InvocationFailureIsExecutionError ==
    LastInvocationFailed =>
        /\ pc # "raised"
        /\ pc = "tail" => step_exc.type = "AgentExecutionError"
        /\ (pc = "loop" /\ LastCall.iteration = iteration - 1) =>
              HasError(LastEntry, "AgentExecutionError")

\* C18: add_tool with a name already registered fails, remove_tool and update_tool
\* with a name not registered fail, and a failing call leaves the registry as it
\* was; a succeeding add, remove or update changes only the entry of the named
\* tool.
C18_ToolboxOperations ==
    [][ /\ pc' = "add_tool" =>
              IF action'.name \in DOMAIN toolbox
              THEN raised'.type = "KeyError" /\ toolbox' = toolbox
              ELSE /\ raised' = NoExc
                   /\ DOMAIN toolbox' = DOMAIN toolbox \cup {action'.name}
                   /\ toolbox'[action'.name] = action'
                   /\ \A n \in DOMAIN toolbox : toolbox'[n] = toolbox[n]
        /\ pc' = "remove_tool" =>
              IF action'.name \notin DOMAIN toolbox
              THEN raised'.type = "KeyError" /\ toolbox' = toolbox
              ELSE /\ raised' = NoExc
                   /\ DOMAIN toolbox' = DOMAIN toolbox \ {action'.name}
                   /\ \A n \in DOMAIN toolbox' : toolbox'[n] = toolbox[n]
        /\ pc' = "update_tool" =>
              IF action'.name \notin DOMAIN toolbox
              THEN raised'.type = "KeyError" /\ toolbox' = toolbox
              ELSE /\ raised' = NoExc
                   /\ DOMAIN toolbox' = DOMAIN toolbox
                   /\ toolbox'[action'.name] = action'
                   /\ \A n \in DOMAIN toolbox \ {action'.name} : toolbox'[n] = toolbox[n]
      ]_vars
\* An update of "search" has succeeded next to an untouched final_answer tool
\* in a toolbox to which "calculator" had been added.
C18_Witness ==
    /\ pc = "update_tool"
    /\ raised = NoExc
    /\ action = OtherTool("search")
    /\ DOMAIN toolbox = ToolNames
    /\ toolbox["search"] = OtherTool("search")
    /\ toolbox["final_answer"] = FinalAnswerTool

\* C19: the final_answer tool is in the agent's toolbox after construction and
\* after any sequence of toolbox operations.
C19_FinalAnswerToolPresent == "final_answer" \in DOMAIN toolbox

\* C20: clear_toolbox empties the registry whatever it held; right after it
\* show_tool_descriptions gives the empty rendering and add_tool succeeds for a
\* tool of any name.
C20_ClearEmpties ==
    [][ pc' = "clear_toolbox" =>
            /\ raised' = NoExc
            /\ DOMAIN toolbox' = {}
            /\ show_tool_descriptions(toolbox') = {}
            /\ \A tool \in ToolboxTools :
                  /\ add_tool(toolbox', tool).ok
                  /\ DOMAIN add_tool(toolbox', tool).tools = {tool.name}
      ]_vars
\* clear_toolbox has just emptied the toolbox of a ReactCodeAgent.
C20_Witness ==
    /\ pc = "clear_toolbox"
    /\ agent_class = "ReactCodeAgent"
    /\ raised = NoExc
    /\ DOMAIN toolbox = {}
    /\ show_tool_descriptions(toolbox) = {}

\* ------------------------------------------------- claims about the memory
\* The tool-response messages of the memory mem that answer the step of index i.
ResponsesTo(mem, i) ==
    {j \in DOMAIN mem : mem[j].role = TOOL_RESPONSE /\ mem[j].content[2] = i}
\* Whether the message m is the tool response the builder derives from the entry e
\* of step index i: from its error, with the retry guidance, when it has one, and
\* otherwise from its observation.
IsResponseOf(m, e, i) ==
    IF "error" \in DOMAIN e
    THEN /\ Len(m.content) = 5
         /\ m.content[1] = "[OUTPUT OF STEP" /\ m.content[2] = i
         /\ m.content[3] = "] Error:" /\ m.content[4] = e["error"]
         /\ m.content[5] = "Now let's retry"
    ELSE /\ "observation" \in DOMAIN e
         /\ Len(m.content) = 4
         /\ m.content[1] = "[OUTPUT OF STEP" /\ m.content[2] = i
         /\ m.content[3] = "] Observation:" /\ m.content[4] = e["observation"]
HasResponse(e) == "error" \in DOMAIN e \/ "observation" \in DOMAIN e
\* The messages of mem whose content starts with the tag.
Tagged(mem, tag) == {j \in DOMAIN mem : mem[j].content[1] = tag}

\* C21, as claimed: every log entry after entry 0 gets exactly one tool-response
\* message, built from its error (with the retry guidance) when it has one and
\* otherwise from its observation.
C21_OneResponsePerEntry ==
    pc = "built" =>
        \A k \in 2..Len(logs) :
            /\ Cardinality(ResponsesTo(returned, k - 2)) = 1
            /\ \A j \in ResponsesTo(returned, k - 2) : IsResponseOf(returned[j], logs[k], k - 2)
\* C21, amended: every log entry after entry 0 gets at most one tool-response
\* message; it gets one exactly when it has an error or an observation, built from
\* the error (with the retry guidance) when it has one and otherwise from the
\* observation.  Planning entries, task entries and steps that ended with a final
\* answer get none.
C21_OneResponsePerAnsweredEntry ==
    pc = "built" =>
        \A k \in 2..Len(logs) :
            /\ Cardinality(ResponsesTo(returned, k - 2)) = (IF HasResponse(logs[k]) THEN 1 ELSE 0)
            /\ \A j \in ResponsesTo(returned, k - 2) : IsResponseOf(returned[j], logs[k], k - 2)
C21_Witness ==
    /\ pc = "built"
    /\ Len(logs) = 3
    /\ "error" \in DOMAIN logs[2]
    /\ "plan" \in DOMAIN logs[3]
    /\ Cardinality({j \in DOMAIN returned : returned[j].role = TOOL_RESPONSE}) = 1

\* C22, as claimed: with a system role the memory begins, in both modes, with a
\* system message carrying entry 0's system prompt and then a user message
\* carrying the task.
C22_SystemThenTask ==
    (pc = "built" /\ ~is_mistral) =>
        /\ Len(returned) >= 2
        /\ returned[1] = Message(SYSTEM, logs[1]["system_prompt"])
        /\ returned[2] = Message(USER, <<"Task: ">> \o logs[1]["task"])
\* C22, amended: with a system role the memory begins in non-summary mode with a
\* system message carrying entry 0's system prompt and then a user message
\* carrying the task; in summary mode it begins with the user message carrying
\* the task and holds no system message.
C22_SystemThenTaskUnlessSummary ==
    (pc = "built" /\ ~is_mistral) =>
        IF in_summary_mode
        THEN /\ returned[1] = Message(USER, <<"Task: ">> \o logs[1]["task"])
             /\ \A j \in DOMAIN returned : returned[j].role # SYSTEM
        ELSE /\ Len(returned) >= 2
             /\ returned[1] = Message(SYSTEM, logs[1]["system_prompt"])
             /\ returned[2] = Message(USER, <<"Task: ">> \o logs[1]["task"])
C22_Witness ==
    /\ pc = "built" /\ ~is_mistral /\ in_summary_mode
    /\ Len(logs) = 3
    /\ returned[1].role = USER

\* C23: without a system role, entry 0 contributes one leading user message
\* (every other message comes from a later entry) and the memory holds no system
\* message.
C23_SingleLeadingUserMessage ==
    (pc = "built" /\ is_mistral) =>
        /\ \A j \in DOMAIN returned : returned[j].role # SYSTEM
        /\ returned[1].role = USER
        /\ Len(returned) = 1 + Len(StepsMemory(logs, Len(logs), in_summary_mode))

\* C24: in summary mode the memory holds no message made of an entry's llm_output
\* or plan, and one tool_call summary for each entry that has a tool_call; in
\* non-summary mode it holds no tool_call summary.
C24_SummaryMode ==
    pc = "built" =>
        IF in_summary_mode
        THEN /\ Tagged(returned, "llm_output") = {}
             /\ Tagged(returned, "[PLAN]:") = {}
             /\ \A k \in 2..Len(logs) :
                    LET summaries == {j \in Tagged(returned, "[STEP") :
                                         returned[j].content[2] = k - 2}
                    IN  IF "tool_call" \in DOMAIN logs[k]
                        THEN \E j \in summaries :
                                /\ summaries = {j}
                                /\ returned[j].content[4] = logs[k]["tool_call"]
                        ELSE summaries = {}
        ELSE Tagged(returned, "[STEP") = {}
C24_Witness ==
    /\ pc = "built" /\ in_summary_mode
    /\ Len(logs) = 3
    /\ "tool_call" \in DOMAIN logs[2] /\ "llm_output" \in DOMAIN logs[2]
    /\ "plan" \in DOMAIN logs[3]
    /\ Cardinality(Tagged(returned, "[STEP")) = 1

FenceLines(text) == {i \in DOMAIN text : MatchesClosing(text[i])}
CodeBlocks(text) ==
    {i \in FenceLines(text) :
        /\ Cardinality({j \in FenceLines(text) : j < i}) % 2 = 0
        /\ \E j \in FenceLines(text) : j > i
        /\ MatchesOpening(text[i])}
\* The lines inside the block that the fence line i opens.
BlockContent(text, i) ==
    LET j == CHOOSE x \in FenceLines(text) :
                 x > i /\ \A y \in FenceLines(text) : y > i => x <= y
    IN  SubSeq(text, i + 1, j - 1)

\* C27: parse_code_blob returns the content of the first fenced code block of
\* the text, blank lines at its ends trimmed, and fails with a ValueError when
\* the text has no fenced code block.
C27_FirstFencedBlock ==
    pc = "parse_code_blob" =>
        LET text == llm_output["code_blob"]
        IN  IF CodeBlocks(text) = {}
            THEN raised.type = "ValueError"
            ELSE LET first == CHOOSE i \in CodeBlocks(text) : \A j \in CodeBlocks(text) : i <= j
                 IN  /\ raised = NoExc
                     /\ returned = strip(BlockContent(text, first))

\* C28: parse_json_tool_call succeeds exactly on a JSON object with an action
\* key: it returns the action with the action_input, or with None when there is
\* no action_input; on an object without an action key it fails with a
\* ValueError that names the missing action key, on anything else with a
\* ValueError.
C28_StructuredCall ==
    pc = "parse_json_tool_call" =>
        LET blob == llm_output["json_blob"]
        IN  IF blob.form = "json" /\ "action" \in DOMAIN blob.obj
            THEN /\ raised = NoExc
                 /\ returned.tool_name = blob.obj["action"]
                 /\ returned.arguments = (IF "action_input" \in DOMAIN blob.obj
                                          THEN blob.obj["action_input"] ELSE PyNone)
            ELSE /\ raised.type = "ValueError"
                 /\ blob.form = "json" =>
                        /\ raised.message[1] = "Missing keys:"
                        /\ "action" \in raised.message[2]
C28_Witness ==
    /\ pc = "parse_json_tool_call"
    /\ llm_output["json_blob"].form = "json"
    /\ DOMAIN llm_output["json_blob"].obj = {"action", "thought"}
    /\ raised = NoExc
    /\ returned.arguments = PyNone

\* --------------------------------------------------- claims about the log
\* C29: during a run the log only grows; an entry that is no longer the last one
\* never changes, and the last entry only gains fields: the fields it has keep
\* their values.
C29_AppendOnly ==
    [][pc # "idle" =>
          /\ Len(logs') >= Len(logs)
          /\ \A k \in 1..Len(logs) :
                IF k < Len(logs) THEN logs'[k] = logs[k]
                ELSE /\ DOMAIN logs[k] \subseteq DOMAIN logs'[k]
                     /\ \A f \in DOMAIN logs[k] : logs'[k][f] = logs[k][f]]_vars

\* Whether a step's entry has received its observation, error or final answer.
Closed(e) == "observation" \in DOMAIN e \/ "error" \in DOMAIN e \/ "final_answer" \in DOMAIN e
\* C30: the steps of a run follow one another: when a step has begun, the entry
\* of every earlier step has its observation, error or final_answer; the calls
\* to the LLM and to the tools are made in the order of the iterations; and a
\* streaming run yields an entry only once its iteration is over.
C30_StepsSequential ==
    /\ \A k \in StepIndexes : (\E later \in StepIndexes : later > k) => Closed(logs[k])
    /\ \A a \in DOMAIN calls : \A b \in DOMAIN calls :
            a < b => calls[a].iteration <= calls[b].iteration
    /\ \A i \in DOMAIN yielded :
            yielded[i] # 0 =>
                /\ yielded[i] <= Len(logs)
                /\ yielded[i] = Len(logs) => pc \notin {"parse", "execute", "tail"}

\* ------------------------------------------- claims about runs after a run
\* C31: a run with reset starts from a log of one entry that holds the system
\* prompt and the task, and from a State that is the inputs it was given, with
\* nothing of the earlier run; for the rest of the run the first entry keeps
\* these two fields and their values.
C31_ResetRun ==
    [][/\ (pc = "idle" /\ reset') =>
            /\ Len(logs') = 1
            /\ DOMAIN logs'[1] = {"system_prompt", "task"}
            /\ logs'[1]["task"] = task'
            /\ state' = (IF Len(task') = 3 THEN task'[3] ELSE EmptyMap)
       /\ (pc # "idle" /\ reset) =>
            /\ DOMAIN logs'[1] = {"system_prompt", "task"}
            /\ logs'[1] = logs[1]]_vars
\* A run with reset and an input has ended with two more entries in the log.
C31_Witness ==
    /\ reset /\ pc = "done"
    /\ Len(logs) = 3
    /\ run_task = <<"follow-up task">>
    /\ Len(task) = 3
    /\ "audio.mp3" \notin DOMAIN state

\* The entries of the log that hold the task of a follow-up run.
TaskIndexes == {k \in 2..Len(logs) : "task" \in DOMAIN logs[k]}
\* C39: a run without reset appends one entry, holding the new task, to the log
\* the earlier run left, and changes none of the entries that were there; the
\* memory built for its first step has that task as a user message after the
\* messages of the earlier entries.
C39_FollowUpRun ==
    [][/\ (pc = "idle" /\ ~reset') =>
            /\ Len(logs') = Len(logs) + 1
            /\ SubSeq(logs', 1, Len(logs)) = logs
            /\ logs'[Len(logs')] = [x \in {"task"} |-> run_task']
            /\ pc' = "loop"
       /\ (pc # "idle" /\ ~reset) =>
            \A k \in 1..(Len(logs) - 1) : logs'[k] = logs[k]
       /\ (pc = "step" /\ ~reset /\ iteration = 0) =>
            LET planned == "plan" \in DOMAIN logs[Len(logs)]
                p == Len(prompt') - (IF planned THEN 2 ELSE 0)
            IN  /\ prompt'[p] = Message(USER, <<"New task:", run_task>>)
                /\ Cardinality(Tagged(prompt', "New task:")) = Cardinality(TaskIndexes)]_vars
\* The first step of a follow-up run has called the LLM with the new task in its
\* memory, after the error of the earlier run.
C39_Witness ==
    /\ ~reset /\ pc = "parse" /\ iteration = 0
    /\ Len(logs) = 4
    /\ "error" \in DOMAIN logs[2]
    /\ "task" \in DOMAIN logs[3]
    /\ Tagged(prompt, "New task:") # {}

\* ----------------------------------------------- claims about the steps
\* C32: when a tool of the ReactJsonAgent has returned, a textual result is the
\* observation and State is as before; any other result is put in State under
\* the name of its type, the observation says so, and every other key of State
\* is as before.
C32_ObservationAndState ==
    [][(/\ pc = "execute" /\ agent_class = "ReactJsonAgent"
        /\ Len(calls') = Len(calls) + 1
        /\ ~calls'[Len(calls')].failed) =>
          LET result == calls'[Len(calls')].result
              entry == logs'[Len(logs')]
              name == IF result.kind = "AgentImage" THEN "image.png"
                      ELSE IF result.kind = "AgentAudio" THEN "audio.mp3"
                      ELSE "object.object"
          IN  /\ step_exc'.type = "none"
              /\ "observation" \in DOMAIN entry
              /\ IF result.kind = "AgentText"
                 THEN entry["observation"] = <<result.s>> /\ state' = state
                 ELSE /\ entry["observation"] = <<"Stored", name, "in memory.">>
                      /\ DOMAIN state' = DOMAIN state \cup {name}
                      /\ state'[name] = result
                      /\ \A k \in DOMAIN state \ {name} : state'[k] = state[k]]_vars
\* A tool has returned an image to a run without inputs.
C32_Witness ==
    /\ pc = "tail" /\ agent_class = "ReactJsonAgent"
    /\ "observation" \in DOMAIN logs[Len(logs)]
    /\ logs[Len(logs)]["observation"] = <<"Stored", "image.png", "in memory.">>
    /\ DOMAIN state = {"image.png"}
    /\ Len(task) = 1

\* ------------------------------------------- claims about the memory's order
\* The place of a kind of message among the messages of one entry.
Rank(tag) ==
    IF tag = "llm_output" THEN 1
    ELSE IF tag = "[FACTS LIST]:" THEN 2
    ELSE IF tag = "[PLAN]:" THEN 3
    ELSE IF tag = "[STEP" THEN 4
    ELSE IF tag = "New task:" THEN 5
    ELSE IF tag = "[OUTPUT OF STEP" THEN 6
    ELSE 0
\* The kinds of message the entry e gives in the mode sm.
KindsOf(e, sm) ==
    (IF "llm_output" \in DOMAIN e /\ ~sm THEN {"llm_output"} ELSE {})
    \cup (IF "facts" \in DOMAIN e THEN {"[FACTS LIST]:"} ELSE {})
    \cup (IF "plan" \in DOMAIN e /\ ~sm THEN {"[PLAN]:"} ELSE {})
    \cup (IF "tool_call" \in DOMAIN e /\ sm THEN {"[STEP"} ELSE {})
    \cup (IF "task" \in DOMAIN e THEN {"New task:"} ELSE {})
    \cup (IF HasResponse(e) THEN {"[OUTPUT OF STEP"} ELSE {})
\* The number of messages the entries k..Len(lg) give.
RECURSIVE MessagesFrom(_, _, _)
MessagesFrom(lg, k, sm) ==
    IF k > Len(lg) THEN 0
    ELSE Cardinality(KindsOf(lg[k], sm)) + MessagesFrom(lg, k + 1, sm)
\* Whether the message m of the kind tag is made of the entry e of step index i.
MadeOf(m, tag, e, i) ==
    IF tag = "llm_output" THEN m.content[2] = e["llm_output"]
    ELSE IF tag = "[FACTS LIST]:" THEN m.content[2] = e["facts"]
    ELSE IF tag = "[PLAN]:" THEN m.content[2] = e["plan"]
    ELSE IF tag = "[STEP" THEN m.content[2] = i /\ m.content[4] = e["tool_call"]
    ELSE IF tag = "New task:" THEN m.content[2] = e["task"]
    ELSE m.content[2] = i

\* C33: the memory keeps the order of the log: after the messages of entry 0
\* come the messages of each later entry, entry by entry, and those of one entry
\* in the order llm_output, facts, plan, tool_call summary, follow-up task,
\* tool response.
C33_LogOrder ==
    pc = "built" =>
        /\ Len(returned) - MessagesFrom(logs, 2, in_summary_mode) \in {1, 2}
        /\ \A k \in 2..Len(logs) :
              LET kinds == KindsOf(logs[k], in_summary_mode)
                  first == Len(returned) - MessagesFrom(logs, k, in_summary_mode) + 1
                  places == first..(first + Cardinality(kinds) - 1)
              IN  /\ {returned[p].content[1] : p \in places} = kinds
                  /\ \A p \in places : \A q \in places :
                        p < q => Rank(returned[p].content[1]) < Rank(returned[q].content[1])
                  /\ \A p \in places :
                        MadeOf(returned[p], returned[p].content[1], logs[k], k - 2)
\* A memory built of a log with a failed step before a planning entry.
C33_Witness ==
    /\ pc = "built" /\ ~in_summary_mode
    /\ Len(logs) = 3
    /\ "llm_output" \in DOMAIN logs[2] /\ "error" \in DOMAIN logs[2]
    /\ "plan" \in DOMAIN logs[3]
    /\ Len(returned) = 6

\* -------------------------------------- claims about the search variant
\* Whether the entry e is of a step whose LLM output has neither "Search:" nor
\* "Final Answer:".
NoMarker(e) ==
    /\ "llm_output" \in DOMAIN e
    /\ Len(e["llm_output"]) = 1
    /\ ~HasFinalAnswer(e["llm_output"])
\* C34: in the ReactCodeSearchAgent, a step whose LLM output has neither
\* "Search:" nor "Final Answer:" ends with an AgentParsingError in its entry,
\* and the memory of the next step has the tool response made of that error.
C34_NoMarkerIsParseFailure ==
    agent_class = "ReactCodeSearchAgent" =>
        /\ (pc = "loop" /\ iteration > 0 /\ NoMarker(logs[Len(logs)])) =>
                HasError(logs[Len(logs)], "AgentParsingError")
        /\ (pc = "parse" /\ iteration > 0 /\ NoMarker(logs[Len(logs) - 1])) =>
                \E j \in ResponsesTo(prompt, Len(logs) - 3) :
                    prompt[j].content[3] = "] Error:"

\* ---------------------------------------- claims about several actions
\* Whether the LLM output holds more than one action: its action marker twice,
\* or several JSON objects after one marker.
SeveralActions(cls, out) ==
    \/ Len(out) >= 3
    \/ cls = "ReactJsonAgent" /\ \E i \in DOMAIN out : out[i].form = "multi"
\* C35: a step whose LLM output holds more than one action ends its parse with
\* an AgentParsingError and executes none of the actions.
C35_SeveralActionsRejected ==
    [][(pc = "parse" /\ SeveralActions(agent_class, llm_output)) =>
          /\ step_exc'.type = "AgentParsingError"
          /\ pc' = "tail"]_vars

\* ------------------------------------------ claims about the step's result
\* C36: when step() has returned, whatever the agent's class and the mode of the
\* run, the loop takes its result: the observation is collected and the run
\* goes on to the next test of the loop, with no exception raised.
C36_StepResultAccepted ==
    [][(pc = "tail" /\ step_exc.type = "none") =>
          /\ pc' = "loop"
          /\ raised' = raised
          /\ Len(step_observation_logs') = Len(step_observation_logs) + 1]_vars

\* C37: the execution of a tool call leaves the tool_call recorded in the
\* current entry as the parse left it.
C37_LoggedArgumentsKept ==
    [][(pc = "execute" /\ "tool_call" \in DOMAIN logs[Len(logs)]) =>
          /\ "tool_call" \in DOMAIN logs'[Len(logs')]
          /\ logs'[Len(logs')]["tool_call"] = logs[Len(logs)]["tool_call"]]_vars

\* C38: in a step of the ReactCodeSearchAgent, an LLM output with "Search:" has
\* the search tool called once and no final answer recorded, "Final Answer:" in
\* the output or not; an output without "Search:" has no search made, and a
\* final answer recorded exactly when it has "Final Answer:".
C38_SearchBeforeFinalAnswer ==
    [][(pc = "execute" /\ agent_class = "ReactCodeSearchAgent") =>
          LET entry == logs'[Len(logs')]
          IN  IF Len(llm_output) >= 2
              THEN /\ Len(calls') = Len(calls) + 1
                   /\ calls'[Len(calls')].kind = "search"
                   /\ "final_answer" \notin DOMAIN entry
              ELSE /\ calls' = calls
                   /\ "final_answer" \in DOMAIN entry <=> HasFinalAnswer(llm_output)]_vars
\* The output had "Final Answer:" before "Search:", and the search was made.
C38_Witness ==
    /\ pc = "tail" /\ agent_class = "ReactCodeSearchAgent"
    /\ llm_output = <<SText(TRUE), SText(FALSE)>>
    /\ "llm_output" \in DOMAIN logs[Len(logs)]
    /\ logs[Len(logs)]["llm_output"] = llm_output
    /\ "final_answer" \notin DOMAIN logs[Len(logs)]
    /\ calls # <<>>
    /\ calls[Len(calls)].kind = "search"

\* ------------------------------------------ claims about a shared Toolbox
\* C40: an agent can be built on the Toolbox of another agent: the constructor
\* raises nothing and leaves a final_answer tool in the Toolbox.
C40_ToolboxReusable ==
    pc = "__init__" =>
        /\ raised = NoKeyError
        /\ "final_answer" \in DOMAIN toolbox
        /\ toolbox["final_answer"] = FinalAnswerTool
====
